---- MODULE Spec2Model ----
(***************************************************************************)
(* Verification model of the pick-slip extraction pipeline of              *)
(* itzcole03/potofgreed: the OCRProcessor orchestration                    *)
(* (client/lib/ocr-processor.ts), the text parsers of the same file, the   *)
(* training-data template (client/lib/prizepick-training-data.ts) and the  *)
(* upload handlers of the page (client/pages/Index.tsx and its variant     *)
(* with the correction dialog).                                            *)
(*                                                                         *)
(* Texts are sequences of one-character strings.  Money and scores are     *)
(* integers in a fixed scale that is named where it is used.               *)
(***************************************************************************)
EXTENDS Integers, Sequences, FiniteSets, TLC

VARIABLES
  worker,      \* OCRProcessor.worker: 0 is null, otherwise a worker id
  nWorkers,    \* number of workers Tesseract.createWorker has returned
  params,      \* engine side: the parameters in effect on each worker
  queue,       \* engine side: the calls posted to each worker, oldest first
  pc,          \* per processImage invocation: the await it is suspended at
  settled,     \* per invocation: the settlement of the awaited engine call
  lw,          \* per invocation: the local `worker` of processImage
  canvas,      \* per invocation: the preprocessed canvas [width, height]
  pass,        \* per invocation: 0 header, 1..n player cards, n+1 full image
  progress,    \* per invocation: the percentages given to onProgress
  results,     \* per invocation: the `results` array of runMultiPassOCR
  engineLog,   \* per invocation: the settlements of its engine calls, in order
  outcome,     \* per invocation: how the processImage promise settled
  hasCb,       \* per invocation: whether onProgress was passed
  fn,          \* the function a single call applies ("none" in the pipeline)
  arg,         \* the argument of that call
  ret,         \* what the call returned (or that it raised)
  page,        \* the state of the page component that owns the processor
  bets,        \* the records betStorage holds
  reviewed     \* the lineups the review dialog has handed to onConfirm

pvars == <<worker, nWorkers, params, queue, pc, settled, lw, canvas, pass,
           progress, results, engineLog, outcome, hasCb>>
hvars == <<fn, arg, ret>>
uvars == <<page, bets, reviewed>>
vars == <<pvars, hvars, uvars>>

(***************************************************************************)
(* The two processImage invocations that share one OCRProcessor, and the   *)
(* canvas preprocessImage hands to the orchestrator (a phone screenshot).  *)
(***************************************************************************)
Invocations == {"A", "B"}
Canvases == {[width |-> 1170, height |-> 2532]}
WorkerIds == 1..Cardinality(Invocations)

Max2(a, b) == IF a >= b THEN a ELSE b
Min2(a, b) == IF a <= b THEN a ELSE b

(***************************************************************************)
(* Engine parameter profiles.  setParameters merges the given keys into    *)
(* the worker's parameters; only the page segmentation mode and the        *)
(* character whitelist differ between the profiles the orchestrator uses.  *)
(***************************************************************************)
NarrowWhitelist == "A-Za-z0-9 .$-"
WideWhitelist == "A-Za-z0-9 .$-+@():"

DefaultParams == [psm |-> "AUTO", whitelist |-> "ALL"]
InitProfile == [psm |-> "SINGLE_BLOCK", whitelist |-> WideWhitelist]
HeaderProfile == [psm |-> "SINGLE_LINE", whitelist |-> NarrowWhitelist]
CardProfile == [psm |-> "SINGLE_BLOCK", whitelist |-> WideWhitelist]

NoRect == [left |-> 0, top |-> 0, width |-> 0, height |-> 0]
NoSettle == [status |-> "none", params |-> DefaultParams]

(***************************************************************************)
(* detectUIRegions.  Math.floor(height * 0.15) and Math.floor(height *     *)
(* 0.1) are the integer quotients below; for height 0 the estimate is      *)
(* 0 / 0 = NaN, every comparison with it is false and the loop over the    *)
(* player cards does not run.                                              *)
(***************************************************************************)
HeaderHeight(height) == (15 * height) \div 100
FooterHeight(height) == height \div 10
PlayerAreaHeight(height) == height - HeaderHeight(height) - FooterHeight(height)

\* The estimate with cards of 20% of the height, as the layout note has them.
EstimatedPlayerCountFifth(height) ==
  Max2(2, Min2(6, (100 * PlayerAreaHeight(height)) \div (20 * height)))

EstimatedPlayerCount(height) ==
  Max2(2, Min2(6, (100 * PlayerAreaHeight(height)) \div (12 * height)))

CardCount(height) == IF height = 0 THEN 0 ELSE EstimatedPlayerCount(height)

\* The card height rounded up instead of down.
PlayerCardHeightCeil(height) ==
  (PlayerAreaHeight(height) + CardCount(height) - 1) \div CardCount(height)

PlayerCardHeight(height) == PlayerAreaHeight(height) \div CardCount(height)

DetectUIRegions(width, height) ==
  [header |-> [left |-> 0, top |-> 0, width |-> width,
               height |-> HeaderHeight(height)],
   playerCards |->
     [i \in 1..CardCount(height) |->
        [left |-> 0,
         top |-> HeaderHeight(height) + (i - 1) * PlayerCardHeight(height),
         width |-> width,
         height |-> PlayerCardHeight(height)]],
   footer |-> [left |-> 0, top |-> height - FooterHeight(height),
               width |-> width, height |-> FooterHeight(height)]]

Regions(p) == DetectUIRegions(canvas[p].width, canvas[p].height)
NumCards(p) == Len(Regions(p).playerCards)

(***************************************************************************)
(* Engine calls and the orchestrator's use of them.                        *)
(***************************************************************************)
SetParametersCall(p, profile) ==
  [inv |-> p, kind |-> "setParameters", profile |-> profile, rect |-> NoRect,
   whole |-> FALSE]

RecognizeCall(p, rect, whole) ==
  [inv |-> p, kind |-> "recognize", profile |-> DefaultParams, rect |-> rect,
   whole |-> whole]

\* A processRegion that does not await setParameters before recognize.
ProcessRegionEntryNoAwait(p, rect, ocrParams) ==
  <<SetParametersCall(p, ocrParams), RecognizeCall(p, rect, FALSE)>>

\* processRegion up to its first await: worker.setParameters(ocrParams).
ProcessRegionEntry(p, rect, ocrParams) ==
  <<SetParametersCall(p, ocrParams)>>

\* The profile runMultiPassOCR passes for a pass, and the rectangle.
PassProfile(p, k) == IF k = 0 THEN HeaderProfile ELSE CardProfile
PassIsFull(p, k) == k = NumCards(p) + 1
PassRect(p, k) ==
  IF k = 0 THEN Regions(p).header
  ELSE IF PassIsFull(p, k) THEN NoRect
  ELSE Regions(p).playerCards[k]
PassRegionName(p, k) ==
  IF k = 0 THEN "header" ELSE IF PassIsFull(p, k) THEN "full" ELSE "player"

\* The percentage reported before pass k (k >= 1) of runMultiPassOCR.
PassProgress(p, k) == IF PassIsFull(p, k) THEN 75 ELSE 40 + (k - 1) * 8

Report(p, percents) == IF hasCb[p] THEN progress[p] \o percents ELSE progress[p]

\* The catch block of processImage: the error is replaced and rethrown.
CatchSwallow == [status |-> "resolved"]
Catch == [status |-> "rejected"]

Pending == [status |-> "pending"]
Resolved == [status |-> "resolved"]

NoValue == [kind |-> "none"]

PipelineInit ==
  /\ worker = 0
  /\ nWorkers = 0
  /\ params = [w \in WorkerIds |-> DefaultParams]
  /\ queue = [w \in WorkerIds |-> <<>>]
  /\ pc = [p \in Invocations |-> "idle"]
  /\ settled = [p \in Invocations |-> NoSettle]
  /\ lw = [p \in Invocations |-> 0]
  /\ canvas = [p \in Invocations |-> [width |-> 0, height |-> 0]]
  /\ pass = [p \in Invocations |-> 0]
  /\ progress = [p \in Invocations |-> <<>>]
  /\ results = [p \in Invocations |-> <<>>]
  /\ engineLog = [p \in Invocations |-> <<>>]
  /\ outcome = [p \in Invocations |-> Pending]
  /\ hasCb \in {[p \in Invocations |-> b] : b \in BOOLEAN}

\* No page component is mounted and the store is empty.
Unmounted ==
  /\ page = [source |-> "none"]
  /\ bets = <<>>
  /\ reviewed = {}

Init ==
  /\ PipelineInit
  /\ fn = "none"
  /\ arg = NoValue
  /\ ret = NoValue
  /\ Unmounted

\* processImage is called: initialize() runs up to its first await.
Call(p) ==
  /\ UNCHANGED <<hvars, uvars>>
  /\ pc[p] = "idle"
  /\ IF worker = 0
       THEN /\ pc' = [pc EXCEPT ![p] = "createWorker"]
            /\ lw' = lw
       ELSE /\ pc' = [pc EXCEPT ![p] = "initialized"]
            /\ lw' = [lw EXCEPT ![p] = worker]
  /\ UNCHANGED <<worker, nWorkers, params, queue, settled, canvas, pass,
                 progress, results, engineLog, outcome, hasCb>>

\* The catch of processImage runs: the promise rejects.
Reject(p) ==
  /\ pc' = [pc EXCEPT ![p] = "done"]
  /\ outcome' = [outcome EXCEPT ![p] = Catch]
  /\ settled' = [settled EXCEPT ![p] = NoSettle]

\* Tesseract.createWorker settles; on success the worker is stored and
\* initialize awaits its setParameters.
CreateWorkerSettled(p) ==
  /\ UNCHANGED <<hvars, uvars>>
  /\ pc[p] = "createWorker"
  /\ \/ /\ nWorkers' = nWorkers + 1
        /\ worker' = nWorkers + 1
        /\ queue' = [queue EXCEPT ![nWorkers + 1] =
                       Append(@, SetParametersCall(p, InitProfile))]
        /\ pc' = [pc EXCEPT ![p] = "initParams"]
        /\ UNCHANGED <<outcome, settled>>
     \/ /\ Reject(p)
        /\ UNCHANGED <<nWorkers, worker, queue>>
  /\ UNCHANGED <<params, lw, canvas, pass, progress, results, engineLog, hasCb>>

\* The worker handles the oldest call posted to it and settles its promise.
EngineStep(w) ==
  /\ UNCHANGED <<hvars, uvars>>
  /\ queue[w] # <<>>
  /\ LET c == Head(queue[w]) IN
       /\ queue' = [queue EXCEPT ![w] = Tail(@)]
       /\ \/ /\ params' = IF c.kind = "setParameters"
                            THEN [params EXCEPT ![w] = c.profile]
                            ELSE params
             /\ settled' = [settled EXCEPT ![c.inv] =
                              [status |-> "ok", params |-> params[w]]]
             /\ engineLog' = [engineLog EXCEPT ![c.inv] = Append(@, "ok")]
          \/ /\ params' = params
             /\ settled' = [settled EXCEPT ![c.inv] =
                              [status |-> "raise", params |-> params[w]]]
             /\ engineLog' = [engineLog EXCEPT ![c.inv] = Append(@, "raise")]
  /\ UNCHANGED <<worker, nWorkers, pc, lw, canvas, pass, progress, results,
                 outcome, hasCb>>

\* initialize's setParameters settled: it returns this.worker, processImage
\* reports 10 and awaits preprocessImage.
InitParamsSettled(p) ==
  /\ UNCHANGED <<hvars, uvars>>
  /\ pc[p] = "initParams"
  /\ settled[p].status # "none"
  /\ IF settled[p].status = "ok"
       THEN /\ lw' = [lw EXCEPT ![p] = worker]
            /\ progress' = [progress EXCEPT ![p] = Report(p, <<10>>)]
            /\ pc' = [pc EXCEPT ![p] = "preprocess"]
            /\ settled' = [settled EXCEPT ![p] = NoSettle]
            /\ UNCHANGED outcome
       ELSE /\ Reject(p)
            /\ UNCHANGED <<lw, progress>>
  /\ UNCHANGED <<worker, nWorkers, params, queue, canvas, pass, results,
                 engineLog, hasCb>>

\* initialize found a worker: processImage reports 10 and awaits
\* preprocessImage.
Initialized(p) ==
  /\ UNCHANGED <<hvars, uvars>>
  /\ pc[p] = "initialized"
  /\ progress' = [progress EXCEPT ![p] = Report(p, <<10>>)]
  /\ pc' = [pc EXCEPT ![p] = "preprocess"]
  /\ UNCHANGED <<worker, nWorkers, params, queue, settled, lw, canvas, pass,
                 results, engineLog, outcome, hasCb>>

\* preprocessImage settled: on success processImage reports 30,
\* runMultiPassOCR detects the regions, reports 30 and enters processRegion
\* for the header.
PreprocessSettled(p) ==
  /\ UNCHANGED <<hvars, uvars>>
  /\ pc[p] = "preprocess"
  /\ \/ \E c \in Canvases :
          /\ canvas' = [canvas EXCEPT ![p] = c]
          /\ progress' = [progress EXCEPT ![p] = Report(p, <<30, 30>>)]
          /\ pass' = [pass EXCEPT ![p] = 0]
          /\ queue' = [queue EXCEPT ![lw[p]] =
                         @ \o ProcessRegionEntry(
                                p,
                                DetectUIRegions(c.width, c.height).header,
                                HeaderProfile)]
          /\ pc' = [pc EXCEPT ![p] = "setParameters"]
          /\ UNCHANGED <<outcome, settled>>
     \/ /\ Reject(p)
        /\ UNCHANGED <<canvas, progress, pass, queue>>
  /\ UNCHANGED <<worker, nWorkers, params, lw, results, engineLog, hasCb>>

\* worker.setParameters of a pass settled: recognize is issued.
SetParametersSettled(p) ==
  /\ UNCHANGED <<hvars, uvars>>
  /\ pc[p] = "setParameters"
  /\ settled[p].status # "none"
  /\ IF settled[p].status = "ok"
       THEN /\ queue' = [queue EXCEPT ![lw[p]] =
                           Append(@, RecognizeCall(p, PassRect(p, pass[p]),
                                                   PassIsFull(p, pass[p])))]
            /\ pc' = [pc EXCEPT ![p] = "recognize"]
            /\ settled' = [settled EXCEPT ![p] = NoSettle]
            /\ UNCHANGED outcome
       ELSE /\ Reject(p)
            /\ UNCHANGED queue
  /\ UNCHANGED <<worker, nWorkers, params, lw, canvas, pass, progress,
                 results, engineLog, hasCb>>

\* worker.recognize of a pass settled: the result is pushed; then the next
\* pass is started, or after the full-image pass processImage finishes.
RecognizeSettled(p) ==
  /\ UNCHANGED <<hvars, uvars>>
  /\ pc[p] = "recognize"
  /\ settled[p].status # "none"
  /\ IF settled[p].status = "ok"
       THEN LET k == pass[p]
                res == [region |-> PassRegionName(p, k),
                        index |-> k,
                        rect |-> PassRect(p, k),
                        params |-> settled[p].params] IN
            /\ results' = [results EXCEPT ![p] = Append(@, res)]
            /\ settled' = [settled EXCEPT ![p] = NoSettle]
            /\ IF PassIsFull(p, k)
                 THEN /\ progress' = [progress EXCEPT ![p] =
                                        Report(p, <<80, 100>>)]
                      /\ outcome' = [outcome EXCEPT ![p] = Resolved]
                      /\ pc' = [pc EXCEPT ![p] = "done"]
                      /\ UNCHANGED <<pass, queue>>
                 ELSE /\ progress' = [progress EXCEPT ![p] =
                                        Report(p, <<PassProgress(p, k + 1)>>)]
                      /\ pass' = [pass EXCEPT ![p] = k + 1]
                      /\ queue' = [queue EXCEPT ![lw[p]] =
                                     @ \o (IF PassIsFull(p, k + 1)
                                             THEN <<SetParametersCall(
                                                      p, CardProfile)>>
                                             ELSE ProcessRegionEntry(
                                                    p, PassRect(p, k + 1),
                                                    CardProfile))]
                      /\ pc' = [pc EXCEPT ![p] = "setParameters"]
                      /\ UNCHANGED outcome
       ELSE /\ Reject(p)
            /\ UNCHANGED <<results, progress, pass, queue>>
  /\ UNCHANGED <<worker, nWorkers, params, lw, canvas, engineLog, hasCb>>

Next ==
  \/ \E p \in Invocations : Call(p)
  \/ \E p \in Invocations : CreateWorkerSettled(p)
  \/ \E w \in WorkerIds : EngineStep(w)
  \/ \E p \in Invocations : InitParamsSettled(p)
  \/ \E p \in Invocations : Initialized(p)
  \/ \E p \in Invocations : PreprocessSettled(p)
  \/ \E p \in Invocations : SetParametersSettled(p)
  \/ \E p \in Invocations : RecognizeSettled(p)

Spec == Init /\ [][Next]_vars

(***************************************************************************)
(* Texts: sequences of one-character strings, with the JavaScript string   *)
(* and regular-expression primitives the processor uses.                   *)
(***************************************************************************)
UpperLetters ==
  <<"A", "B", "C", "D", "E", "F", "G", "H", "I", "J", "K", "L", "M",
    "N", "O", "P", "Q", "R", "S", "T", "U", "V", "W", "X", "Y", "Z">>
LowerLetters ==
  <<"a", "b", "c", "d", "e", "f", "g", "h", "i", "j", "k", "l", "m",
    "n", "o", "p", "q", "r", "s", "t", "u", "v", "w", "x", "y", "z">>
Range(f) == {f[i] : i \in DOMAIN f}
Upper == Range(UpperLetters)
Lower == Range(LowerLetters)
Digits == {"0", "1", "2", "3", "4", "5", "6", "7", "8", "9"}
Spaces == {" ", "\n", "\t"}

\* String.prototype.toLowerCase, per character and per text.
ToLowerChar(c) ==
  IF c \in Upper
    THEN LowerLetters[CHOOSE i \in DOMAIN UpperLetters : UpperLetters[i] = c]
    ELSE c
ToLowerCase(t) == [i \in 1..Len(t) |-> ToLowerChar(t[i])]

\* The literal `pat` occurs in t at position i.
At(t, pat, i) ==
  /\ i >= 1
  /\ i + Len(pat) - 1 <= Len(t)
  /\ \A j \in 1..Len(pat) : t[i + j - 1] = pat[j]

\* String.prototype.includes.
Includes(t, pat) == \E i \in 1..Len(t) + 1 : At(t, pat, i)

\* Number of positions of t whose character satisfies Test.
CountChars(t, Test(_)) == Cardinality({i \in 1..Len(t) : Test(t[i])})

(***************************************************************************)
(* scoreOCRResult and selectBestOCRResult.  Scores are in half points      *)
(* (twice the JavaScript value), because each noise character costs 0.5.   *)
(***************************************************************************)
\* The characters /[^a-zA-Z0-9\s\$\.\-]/ matches.
IsNoiseChar(c) == c \notin Upper \cup Lower \cup Digits \cup Spaces \cup {"$", ".", "-"}

\* text.match(/\$\d+/)
HasDollarDigits(t) == \E i \in 1..Len(t) - 1 : t[i] = "$" /\ t[i + 1] \in Digits

\* A scorer that leaves the noise penalty out.
ScoreOCRResultNoPenalty(data) ==
  2 * data.confidence
  + (IF Includes(ToLowerCase(data.text), <<"p", "i", "c", "k">>) THEN 20 ELSE 0)
  + (IF Includes(ToLowerCase(data.text), <<"f", "l", "e", "x">>) THEN 20 ELSE 0)
  + (IF Includes(ToLowerCase(data.text), <<"p", "l", "a", "y">>) THEN 20 ELSE 0)
  + (IF HasDollarDigits(data.text) THEN 20 ELSE 0)

ScoreOCRResult(data) ==
  2 * data.confidence
  + (IF Includes(ToLowerCase(data.text), <<"p", "i", "c", "k">>) THEN 20 ELSE 0)
  + (IF Includes(ToLowerCase(data.text), <<"f", "l", "e", "x">>) THEN 20 ELSE 0)
  + (IF Includes(ToLowerCase(data.text), <<"p", "l", "a", "y">>) THEN 20 ELSE 0)
  + (IF HasDollarDigits(data.text) THEN 20 ELSE 0)
  - CountChars(data.text, IsNoiseChar)

\* A reduce callback that prefers the later of two equal scores.
ReduceStepLaterWins(best, current) ==
  IF ScoreOCRResult(current.data) >= ScoreOCRResult(best.data)
    THEN current ELSE best

\* The callback of results.reduce in selectBestOCRResult.
ReduceStep(best, current) ==
  IF ScoreOCRResult(current.data) > ScoreOCRResult(best.data)
    THEN current ELSE best

\* results.reduce(callback) without an initial value: the accumulator starts
\* at results[0] and the callback runs for the elements after it.
RECURSIVE ReduceFrom(_, _, _)
ReduceFrom(rs, best, i) ==
  IF i > Len(rs) THEN best ELSE ReduceFrom(rs, ReduceStep(best, rs[i]), i + 1)

SelectBestOCRResult(rs) == ReduceFrom(rs, rs[1], 2)

(***************************************************************************)
(* cleanOCRText: five replaces and a trim, each applied to the output of   *)
(* the one before it.  A global replace with a lookahead decides every     *)
(* position on the text it is given.                                       *)
(***************************************************************************)
\* text.replace(/[from](?=[a-z])/g, to)
ReplaceBeforeLower(t, from, to) ==
  [i \in 1..Len(t) |->
     IF t[i] \in from /\ i < Len(t) /\ t[i + 1] \in Lower THEN to ELSE t[i]]

\* text.replace(/[|\\/_~]/g, " ")
StripArtifacts(t) ==
  [i \in 1..Len(t) |-> IF t[i] \in {"|", "\\", "/", "_", "~"} THEN " " ELSE t[i]]

\* text.replace(/\s+/g, " "): a run of white space becomes one space.
RECURSIVE CollapseSpaces(_)
CollapseSpaces(t) ==
  IF t = <<>> THEN <<>>
  ELSE IF Head(t) \in Spaces
    THEN IF Len(t) >= 2 /\ t[2] \in Spaces
           THEN CollapseSpaces(Tail(t))
           ELSE <<" ">> \o CollapseSpaces(Tail(t))
    ELSE <<Head(t)>> \o CollapseSpaces(Tail(t))

\* String.prototype.trim.
RECURSIVE TrimStart(_)
TrimStart(t) ==
  IF t # <<>> /\ Head(t) \in Spaces THEN TrimStart(Tail(t)) ELSE t
RECURSIVE TrimEnd(_)
TrimEnd(t) ==
  IF t # <<>> /\ t[Len(t)] \in Spaces
    THEN TrimEnd(SubSeq(t, 1, Len(t) - 1)) ELSE t
Trim(t) == TrimEnd(TrimStart(t))

CleanOCRText(t) ==
  Trim(CollapseSpaces(
    ReplaceBeforeLower(
      ReplaceBeforeLower(
        ReplaceBeforeLower(StripArtifacts(t), {"0", "O"}, "o"),
        {"1", "I", "l"}, "l"),
      {"5", "S"}, "s")))

(***************************************************************************)
(* Orchestrator claims.                                                    *)
(***************************************************************************)
\* The calls of invocation p that a worker has not settled yet.
QueuedBy(p) ==
  {wi \in WorkerIds \X (1..2 * Cardinality(Invocations)) :
     /\ wi[2] <= Len(queue[wi[1]])
     /\ queue[wi[1]][wi[2]].inv = p}

\* C1: within one processImage invocation at most one engine call
\* (setParameters or recognize) is outstanding at any time, the next call is
\* issued only after the settlement of the previous one has been consumed,
\* and the invocation never has a setParameters outstanding together with
\* one of its recognize calls.
C1_OneCallOutstanding ==
  \A p \in Invocations :
    /\ Cardinality(QueuedBy(p)) <= 1
    /\ QueuedBy(p) # {} => settled[p].status = "none"
    /\ ~ \E a \in QueuedBy(p), b \in QueuedBy(p) :
           /\ queue[a[1]][a[2]].kind = "setParameters"
           /\ queue[b[1]][b[2]].kind = "recognize"

\* An invocation waits for the recognize of a player-card pass.
C1_Witness ==
  \E p \in Invocations :
    /\ pc[p] = "recognize"
    /\ pass[p] >= 1
    /\ \E a \in QueuedBy(p) : queue[a[1]][a[2]].kind = "recognize"

\* An invocation has issued an engine call and has not finished.
Recognizing(p) ==
  /\ pc[p] \in {"setParameters", "recognize"}
  /\ pass[p] >= 0

\* C2: two invocations on one OCRProcessor are served first-in-first-out:
\* never are both in their recognition work at once, and every recognize
\* runs under the profile its own invocation set for that pass.
C2_InvocationsSerialized ==
  /\ \A p \in Invocations, q \in Invocations :
       (p # q /\ lw[p] = lw[q]) => ~ (Recognizing(p) /\ Recognizing(q))
  /\ \A p \in Invocations :
       \A i \in 1..Len(results[p]) :
         results[p][i].params = PassProfile(p, results[p][i].index)

NonDecreasing(s) == \A i \in 1..Len(s) - 1 : s[i] <= s[i + 1]

\* C3: the percentages given to the progress callback during one
\* processImage call never decrease.
C3_ProgressNonDecreasing ==
  \A p \in Invocations : NonDecreasing(progress[p])

\* C4: once an engine call of an invocation has raised, that call is the
\* last engine call the invocation issued, the invocation does not resolve
\* (it rejects as soon as its continuation runs) and 100 is never reported.
C4_RaiseAborts ==
  \A p \in Invocations :
    (\E i \in 1..Len(engineLog[p]) : engineLog[p][i] = "raise") =>
      /\ engineLog[p][Len(engineLog[p])] = "raise"
      /\ \A i \in 1..Len(engineLog[p]) - 1 : engineLog[p][i] = "ok"
      /\ QueuedBy(p) = {}
      /\ outcome[p].status \in {"pending", "rejected"}
      /\ pc[p] = "done" => outcome[p].status = "rejected"
      /\ \A i \in 1..Len(progress[p]) : progress[p][i] # 100

\* A recognize raised after some passes had produced results, and the
\* invocation has rejected.
C4_Witness ==
  \E p \in Invocations :
    /\ Len(engineLog[p]) >= 4
    /\ engineLog[p][Len(engineLog[p])] = "raise"
    /\ Len(results[p]) >= 1
    /\ pc[p] = "done"
    /\ outcome[p].status = "rejected"

(***************************************************************************)
(* Single calls of the pure functions.  The processor is idle; a call      *)
(* takes its argument from a bounded set and stores what it returns.       *)
(***************************************************************************)
MaxResults == 3
MaxCleanLen == 3

PipelineIdle ==
  /\ PipelineInit
  /\ \A p \in Invocations : ~ hasCb[p]
  /\ Unmounted

Value(v) == [kind |-> "value", value |-> v]

\* Recognition data: three texts, each at three engine confidences.
SampleData ==
  {[text |-> t, confidence |-> c] :
     t \in {<<>>, <<"P", "i", "c", "k">>, <<"$", "5", "#", "#">>},
     c \in {50, 60, 61}}

\* The results array of runMultiPassOCR: element i is the i-th pass.
ResultLists ==
  UNION {{[i \in 1..n |-> [region |-> IF i = 1 THEN "header" ELSE "player",
                           index |-> i - 1,
                           data |-> f[i]]] :
            f \in [1..n -> SampleData]} : n \in 1..MaxResults}

InitSelect ==
  /\ PipelineIdle
  /\ fn = "selectBestOCRResult"
  /\ arg \in ResultLists
  /\ ret = NoValue

ApplySelect ==
  /\ fn = "selectBestOCRResult"
  /\ ret = NoValue
  /\ ret' = Value(SelectBestOCRResult(arg))
  /\ UNCHANGED <<fn, arg, pvars, uvars>>

SpecSelect == InitSelect /\ [][ApplySelect]_vars

\* C10: selectBestOCRResult returns an element of the result set whose score
\* is the maximum, the first such element in pass order; when all scores
\* are equal that is the first result.
C10_SelectFirstMaximum ==
  (fn = "selectBestOCRResult" /\ ret.kind = "value") =>
    LET r == ret.value
        Sc(i) == ScoreOCRResult(arg[i].data) IN
    /\ \E i \in 1..Len(arg) : arg[i] = r
    /\ \A i \in 1..Len(arg) : Sc(i) <= ScoreOCRResult(r.data)
    /\ \A i \in 1..Len(arg) :
         Sc(i) = ScoreOCRResult(r.data) => r.index <= arg[i].index
    /\ (\A i \in 1..Len(arg) : Sc(i) = Sc(1)) => r = arg[1]

\* Three results, the second and third tie for the maximum above the first:
\* the second was returned.
C10_Witness ==
  /\ fn = "selectBestOCRResult"
  /\ ret.kind = "value"
  /\ Len(arg) = 3
  /\ ScoreOCRResult(arg[2].data) = ScoreOCRResult(arg[3].data)
  /\ ScoreOCRResult(arg[1].data) < ScoreOCRResult(arg[2].data)
  /\ arg[2].data # arg[3].data
  /\ ret.value = arg[2]

\* Texts of the characters the normalizer rewrites, a plain lower-case and
\* upper-case letter, a separator and a space.
CleanAlphabet == {"0", "O", "1", "I", "l", "5", "S", "a", "Z", "|", " "}
CleanInputs == UNION {[1..n -> CleanAlphabet] : n \in 0..MaxCleanLen}

InitClean ==
  /\ PipelineIdle
  /\ fn = "cleanOCRText"
  /\ arg \in CleanInputs
  /\ ret = NoValue

ApplyClean ==
  /\ fn = "cleanOCRText"
  /\ ret = NoValue
  /\ ret' = Value(CleanOCRText(arg))
  /\ UNCHANGED <<fn, arg, pvars, uvars>>

\* The cleaned text is cleaned once more.
ApplyCleanAgain ==
  /\ fn = "cleanOCRText"
  /\ ret.kind = "value"
  /\ fn' = "cleanOCRText again"
  /\ arg' = ret.value
  /\ ret' = Value(CleanOCRText(ret.value))
  /\ UNCHANGED <<pvars, uvars>>

SpecClean == InitClean /\ [][ApplyClean \/ ApplyCleanAgain]_vars

\* C7: cleaning a cleaned text returns it unchanged.
C7_CleanIdempotent ==
  fn = "cleanOCRText again" => ret.value = arg

(***************************************************************************)
(* The extraction stage: parseAdvancedPrizePickFromOCR and the functions   *)
(* it calls.  Amounts and betting lines are in hundredths (100 times the   *)
(* JavaScript value); the texts explored carry at most two decimals.       *)
(***************************************************************************)
WordChars == Upper \cup Lower \cup Digits \cup {"_"}
DigitChars == <<"0", "1", "2", "3", "4", "5", "6", "7", "8", "9">>

\* The position after the longest run of characters of cls that starts at i
\* (what a greedy cls* consumes from i).
RECURSIVE RunEnd(_, _, _)
RunEnd(t, cls, i) ==
  IF i <= Len(t) /\ t[i] \in cls THEN RunEnd(t, cls, i + 1) ELSE i

\* The leftmost position of t at which Ok holds, 0 when there is none: the
\* place where a regular expression without the sticky flag matches.
FirstIndex(t, Ok(_)) ==
  IF \E i \in 1..Len(t) : Ok(i)
    THEN CHOOSE i \in 1..Len(t) : Ok(i) /\ \A j \in 1..(i - 1) : ~ Ok(j)
    ELSE 0

\* parseInt of the digits t[i..j-1].
RECURSIVE ParseInt(_, _, _)
ParseInt(t, i, j) ==
  IF j <= i THEN 0
  ELSE 10 * ParseInt(t, i, j - 1)
       + (CHOOSE d \in 0..9 : DigitChars[d + 1] = t[j - 1])

\* String(n) for a non-negative integer.
RECURSIVE NumToChars(_)
NumToChars(n) ==
  IF n < 10 THEN <<DigitChars[n + 1]>>
  ELSE NumToChars(n \div 10) \o <<DigitChars[(n % 10) + 1]>>

\* The end of /\d+(?:\.\d+)?/ matched greedily at i, where t[i] is a digit.
NumberEnd(t, i) ==
  LET j == RunEnd(t, Digits, i) IN
  IF j + 1 <= Len(t) /\ t[j] = "." /\ t[j + 1] \in Digits
    THEN RunEnd(t, Digits, j + 1) ELSE j

\* parseFloat of the number t[i..e-1] (digits, optionally a point and
\* digits), in hundredths.
ParseFloat(t, i, e) ==
  LET j == RunEnd(t, Digits, i)
      d1 == IF j + 1 < e THEN ParseInt(t, j + 1, j + 2) ELSE 0
      d2 == IF j + 2 < e THEN ParseInt(t, j + 2, j + 3) ELSE 0 IN
  100 * ParseInt(t, i, j) + 10 * d1 + d2

\* /(\d+)[-\s]*pick/i matched from position i: the position after "pick",
\* 0 when it does not match there.
PickAt(t, i) ==
  LET j == RunEnd(t, Digits, i)
      k == RunEnd(t, Spaces \cup {"-"}, j) IN
  IF j > i /\ At(ToLowerCase(t), <<"p", "i", "c", "k">>, k) THEN k + 4 ELSE 0

\* regex.test(text) for a case-insensitive literal (given in lower case).
TestI(t, pat) == Includes(ToLowerCase(t), pat)

(***************************************************************************)
(* tryDirectPatternMatching.  It is a function of the module, not a method *)
(* of OCRProcessor, and an ES module is strict code: in a plain call its   *)
(* `this` is undefined, so the property read of line 1462 raises a         *)
(* TypeError as soon as a lineup pattern has been detected.  (In sloppy    *)
(* code `this` would be the global object, which has no                    *)
(* extractMoneyAmountsRobust, and the call would raise a TypeError too.)   *)
(* The statements after line 1462 are never reached.                       *)
(***************************************************************************)
Null == [kind |-> "null"]
Raise(e) == [kind |-> "raise", error |-> e]

\* lineupPatterns, in the order the loop tries them.
LineupPatterns ==
  [n \in 1..5 |-> [digit |-> DigitChars[n + 2],
                   type |-> <<DigitChars[n + 2], "-", "P", "i", "c", "k">>,
                   playerCount |-> n + 1]]

\* pattern.regex.test(ocrText) for /<digit>[-\s]*pick/i.
LineupPatternTest(t, pattern) ==
  \E i \in 1..Len(t) :
    /\ t[i] = pattern.digit
    /\ At(ToLowerCase(t), <<"p", "i", "c", "k">>,
          RunEnd(t, Spaces \cup {"-"}, i + 1))

\* The first pattern that tests true, Null when none does.
DetectedLineup(t) ==
  LET n == FirstIndex(LineupPatterns,
                      LAMBDA i : LineupPatternTest(t, LineupPatterns[i])) IN
  IF n = 0 THEN Null ELSE LineupPatterns[n]

TryDirectPatternMatching(t) ==
  IF DetectedLineup(t) = Null THEN Null ELSE Raise("TypeError")

(***************************************************************************)
(* assessOCRQuality.  The score is held multiplied by the length of the    *)
(* text, because the noise penalty is 30 * noise / length; an empty text   *)
(* gives 0 / 0 = NaN, which Math.min and Math.max pass on.                 *)
(***************************************************************************)
NaN == [kind |-> "NaN"]

\* (text.match(/[a-zA-Z]{3,}/g) || []).length
WordCount(t) ==
  Cardinality({i \in 1..Len(t) :
     /\ t[i] \in Upper \cup Lower
     /\ (i = 1 \/ t[i - 1] \notin Upper \cup Lower)
     /\ RunEnd(t, Upper \cup Lower, i) - i >= 3})

\* (text.match(/\d+(?:\.\d+)?/g) || []).length, scanning from i.
RECURSIVE NumberCount(_, _)
NumberCount(t, i) ==
  IF i > Len(t) THEN 0
  ELSE IF t[i] \in Digits THEN 1 + NumberCount(t, NumberEnd(t, i))
  ELSE NumberCount(t, i + 1)

AssessOCRQuality(t) ==
  IF Len(t) = 0 THEN NaN
  ELSE
    LET score ==
          (IF Len(t) > 50 THEN 20 ELSE 0)
          + (IF TestI(t, <<"p", "i", "c", "k">>) THEN 15 ELSE 0)
          + (IF TestI(t, <<"f", "l", "e", "x">>)
                \/ TestI(t, <<"p", "l", "a", "y">>) THEN 10 ELSE 0)
          + (IF HasDollarDigits(t) THEN 15 ELSE 0)
          + Min2(WordCount(t) * 2, 20)
          + Min2(NumberCount(t, 1) * 3, 15) IN
    [kind |-> "number",
     timesLength |->
       Max2(0, Min2(100 * Len(t),
                    score * Len(t) - 30 * CountChars(t, IsNoiseChar)))]

\* ocrQuality < 30; a comparison with NaN is false.
QualityTooPoor(t) ==
  /\ AssessOCRQuality(t).kind = "number"
  /\ AssessOCRQuality(t).timesLength < 30 * Len(t)

(***************************************************************************)
(* extractReliableData.                                                    *)
(***************************************************************************)
\* A word boundary lies before position i (t[i] is a word character).
BoundaryBefore(t, i) == i = 1 \/ t[i - 1] \notin WordChars
\* A word boundary lies before position e (t[e - 1] is a word character).
BoundaryAfter(t, e) == e > Len(t) \/ t[e] \notin WordChars

\* /(\d+)[-\s]*pick\s+(flex|power)\s+play/i matched from position i: the
\* position of its second group, 0 when it does not match there.
PickTypeAt(t, i) ==
  LET lt == ToLowerCase(t)
      k == PickAt(t, i)
      s == RunEnd(t, Spaces, k)
      n == IF At(lt, <<"f", "l", "e", "x">>, s) THEN 4
           ELSE IF At(lt, <<"p", "o", "w", "e", "r">>, s) THEN 5 ELSE 0
      y == RunEnd(t, Spaces, s + n) IN
  IF k > 0 /\ s > k /\ n > 0 /\ y > s + n /\ At(lt, <<"p", "l", "a", "y">>, y)
    THEN s ELSE 0

\* `${pickMatch[1]}-Pick ${pickMatch[2]} Play`: both groups as they stand in
\* the text.
PickTypeOf(t) ==
  LET i == FirstIndex(t, LAMBDA x : PickTypeAt(t, x) > 0)
      s == PickTypeAt(t, i)
      n == IF ToLowerChar(t[s]) = "f" THEN 4 ELSE 5 IN
  SubSeq(t, i, RunEnd(t, Digits, i) - 1) \o <<"-", "P", "i", "c", "k", " ">>
    \o SubSeq(t, s, s + n - 1) \o <<" ", "P", "l", "a", "y">>

\* The tail \s*.*?\$(\d+(?:\.\d+)?) matched from position e: the position
\* of the "$" it reaches, 0 when there is none.  The greedy \s* may cross
\* line ends, the lazy .*? may not.
SecondDollar(t, e) ==
  LET w == RunEnd(t, Spaces, e) IN
  FirstIndex(t, LAMBDA q :
    /\ q >= w
    /\ q + 1 <= Len(t)
    /\ t[q] = "$"
    /\ t[q + 1] \in Digits
    /\ \A x \in w..(q - 1) : t[x] # "\n")

\* The branch for two amounts without a pick count: the larger is the entry.
LargerIsEntry(val1, val2) ==
  IF val1 > val2 THEN [found |-> TRUE, entryAmount |-> val1, potentialPayout |-> val2]
  ELSE [found |-> TRUE, entryAmount |-> val2, potentialPayout |-> val1]

\* determineEntryAndPayout: the smaller amount is the entry.
DetermineEntryAndPayout(pickCount, amount1, amount2) ==
  [found |-> TRUE,
   entryAmount |-> Min2(amount1, amount2),
   potentialPayout |-> Max2(amount1, amount2)]

\* The loop over moneyPatterns.  pattern.source.includes("pick.*\\$") is
\* false for all three sources (the second reads pick\s*\$), so a match of
\* the second pattern takes the last branch with the pick count as val1.
MoneyMatch(t) ==
  LET Dollar(i) == i + 1 <= Len(t) /\ t[i] = "$" /\ t[i + 1] \in Digits
      AmountAt(i) == RunEnd(t, Spaces, PickAt(t, i)) + 1
      P2(i) == PickAt(t, i) > 0 /\ Dollar(AmountAt(i) - 1)
      P1(i) == P2(i) /\ SecondDollar(t, NumberEnd(t, AmountAt(i))) > 0
      P3(i) == Dollar(i) /\ SecondDollar(t, NumberEnd(t, i + 1)) > 0
      Amount(a) == ParseFloat(t, a, NumberEnd(t, a))
      Second(a) == Amount(SecondDollar(t, NumberEnd(t, a)) + 1)
      i1 == FirstIndex(t, P1)
      i2 == FirstIndex(t, P2)
      i3 == FirstIndex(t, P3) IN
  IF i1 > 0
    THEN DetermineEntryAndPayout(ParseInt(t, i1, RunEnd(t, Digits, i1)),
                                 Amount(AmountAt(i1)), Second(AmountAt(i1)))
  ELSE IF i2 > 0
    THEN LargerIsEntry(100 * ParseInt(t, i2, RunEnd(t, Digits, i2)),
                       Amount(AmountAt(i2)))
  ELSE IF i3 > 0
    THEN LargerIsEntry(Amount(i3 + 1), Second(i3 + 1))
  ELSE [found |-> FALSE]

\* trainingData of estimatePayoutFromTraining, [entry, payout] per count.
TrainingData ==
  [n \in 2..6 |->
     CASE n = 2 -> <<<<250, 750>>, <<310, 930>>, <<500, 1500>>,
                     <<500, 1750>>, <<500, 2000>>, <<840, 6720>>>>
       [] n = 3 -> <<<<250, 1500>>, <<500, 3000>>, <<1000, 3000>>,
                     <<1500, 3000>>, <<3000, 500>>>>
       [] n = 4 -> <<<<500, 3500>>, <<600, 975>>, <<1000, 10000>>, <<4000, 0>>>>
       [] n = 5 -> <<<<1000, 20000>>>>
       [] n = 6 -> <<<<400, 2500>>, <<500, 12500>>, <<500, 13000>>,
                     <<600, 15750>>, <<1000, 10000>>, <<1000, 23125>>>>]

\* estimatePayoutFromTraining: the first exact entry, else the ratio of the
\* closest entry (the sort is stable), else a multiplier by pick count.
EstimatePayoutFromTraining(pickCount, entryAmount) ==
  LET pickData == IF pickCount \in DOMAIN TrainingData
                    THEN TrainingData[pickCount] ELSE <<>>
      Dist(i) == IF pickData[i][1] >= entryAmount
                   THEN pickData[i][1] - entryAmount
                   ELSE entryAmount - pickData[i][1]
      exact == FirstIndex(pickData, LAMBDA i : Dist(i) < 1)
      closest == FirstIndex(pickData,
                   LAMBDA i : \A j \in 1..Len(pickData) : Dist(i) <= Dist(j))
      multiplier == CASE pickCount = 2 -> 3 [] pickCount = 3 -> 6
                      [] pickCount = 4 -> 10 [] pickCount = 5 -> 20
                      [] pickCount = 6 -> 25 [] OTHER -> 5 IN
  IF exact > 0 THEN pickData[exact][2]
  ELSE IF closest > 0
    THEN (entryAmount * pickData[closest][2]) \div pickData[closest][1]
  ELSE entryAmount * multiplier

\* sportKeywords, in the order of Object.entries.
SportKeywords ==
  <<[sport |-> "Tennis", words |-> {<<"t", "e", "n", "n", "i", "s">>}],
    [sport |-> "Golf", words |-> {<<"g", "o", "l", "f">>, <<"p", "g", "a">>}],
    [sport |-> "Nfl", words |-> {<<"n", "f", "l">>}],
    [sport |-> "Nba", words |-> {<<"n", "b", "a">>}],
    [sport |-> "Soccer", words |-> {<<"s", "o", "c", "c", "e", "r">>}]>>

\* The entries of statKeywords that can match the texts explored here, in
\* the order of Object.entries: /\b<word>s?\b/gi for a bounded word and
\* /(fantasy.*score|fantasy)/gi, which is a test for "fantasy".
StatKeywords ==
  <<[stat |-> "Points", word |-> <<"p", "o", "i", "n", "t">>, bounded |-> TRUE],
    [stat |-> "Rebounds", word |-> <<"r", "e", "b", "o", "u", "n", "d">>,
     bounded |-> TRUE],
    [stat |-> "Assists", word |-> <<"a", "s", "s", "i", "s", "t">>,
     bounded |-> TRUE],
    [stat |-> "Fantasy Score", word |-> <<"f", "a", "n", "t", "a", "s", "y">>,
     bounded |-> FALSE],
    [stat |-> "Aces", word |-> <<"a", "c", "e">>, bounded |-> TRUE],
    [stat |-> "Strokes", word |-> <<"s", "t", "r", "o", "k", "e">>,
     bounded |-> TRUE]>>

\* regex.test(text) for one entry of statKeywords.
StatKeywordTest(t, k) ==
  LET lt == ToLowerCase(t) IN
  IF ~ k.bounded THEN Includes(lt, k.word)
  ELSE \E i \in 1..Len(t) :
         LET e == i + Len(k.word) IN
         /\ At(lt, k.word, i)
         /\ BoundaryBefore(t, i)
         /\ \/ BoundaryAfter(t, e)
            \/ e <= Len(t) /\ lt[e] = "s" /\ BoundaryAfter(t, e + 1)

\* The elements of s that satisfy Keep, in order.
Filter(s, Keep(_)) ==
  LET kept == {i \in 1..Len(s) : Keep(s[i])} IN
  [n \in 1..Cardinality(kept) |->
     s[CHOOSE i \in kept : Cardinality({j \in kept : j <= i}) = n]]

\* text.match(/\b\d+(?:\.\d+)?\b/g).map(parseFloat), scanning from i.  A
\* match cannot start or end inside a run of word characters; when the
\* fraction ends inside one the whole part alone matches.
RECURSIVE NumberMatches(_, _)
NumberMatches(t, i) ==
  IF i > Len(t) THEN <<>>
  ELSE IF t[i] \in Digits /\ BoundaryBefore(t, i)
    THEN LET j == RunEnd(t, Digits, i)
             e == NumberEnd(t, i) IN
         IF BoundaryAfter(t, e)
           THEN <<ParseFloat(t, i, e)>> \o NumberMatches(t, e)
         ELSE IF BoundaryAfter(t, j)
           THEN <<ParseFloat(t, i, j)>> \o NumberMatches(t, j)
         ELSE NumberMatches(t, i + 1)
  ELSE NumberMatches(t, i + 1)

ExtractReliableData(t) ==
  LET hasPickType == FirstIndex(t, LAMBDA i : PickTypeAt(t, i) > 0) > 0
      money == MoneyMatch(t)
      pick == FirstIndex(t, LAMBDA i : PickAt(t, i) > 0)
      fallback == ~ hasPickType /\ ~ money.found /\ pick > 0
      sports == [i \in 1..Len(Filter(SportKeywords,
                    LAMBDA k : \E w \in k.words : TestI(t, w))) |->
                   Filter(SportKeywords,
                     LAMBDA k : \E w \in k.words : TestI(t, w))[i].sport]
      kept == Filter(NumberMatches(t, 1), LAMBDA n : n >= 50 /\ n <= 10000)
      numbers == SubSeq(kept, 1, Min2(8, Len(kept)))
      stats == Filter(StatKeywords, LAMBDA k : StatKeywordTest(t, k)) IN
  [pickType |-> IF hasPickType THEN PickTypeOf(t)
                ELSE <<"6", "-", "P", "i", "c", "k", " ", "F", "l", "e", "x",
                       " ", "P", "l", "a", "y">>,
   entryAmount |-> IF money.found THEN money.entryAmount ELSE 500,
   potentialPayout |->
     IF money.found THEN money.potentialPayout
     ELSE IF fallback
       THEN EstimatePayoutFromTraining(
              ParseInt(t, pick, RunEnd(t, Digits, pick)), 500)
     ELSE 12000,
   sports |-> sports,
   numbers |-> numbers,
   statTypes |-> [i \in 1..Len(stats) |-> stats[i].stat],
   hasValidContent |->
     hasPickType \/ money.found \/ fallback \/ sports # <<>>
       \/ numbers # <<>> \/ stats # <<>>]

(***************************************************************************)
(* buildLineupFromExtraction.  A player is modelled by its sport, stat     *)
(* type and match status; name, line, direction and opponent are filled   *)
(* from fixed tables and random draws and are left out.                    *)
(***************************************************************************)
BuildLineupFromExtraction(data) ==
  IF ~ data.hasValidContent THEN Null
  ELSE
    LET digitsEnd == RunEnd(data.pickType, Digits, 1)
        pickCount == IF digitsEnd > 1
                       THEN ParseInt(data.pickType, 1, digitsEnd) ELSE 6
        half == Len(data.numbers) \div 2
        playerCount == Min2(pickCount, Max2(3, IF half = 0 THEN 4 ELSE half))
        Sport(i) == IF data.sports # <<>>
                      THEN data.sports[(i % Len(data.sports)) + 1]
                      ELSE IF i < 3 THEN "Golf" ELSE "Tennis"
        StatType(i) ==
          IF data.statTypes # <<>>
            THEN data.statTypes[(i % Len(data.statTypes)) + 1]
          ELSE IF Sport(i) = "Golf" THEN "Strokes"
          ELSE IF Sport(i) = "Tennis"
            THEN IF i % 2 = 0 THEN "Fantasy Score" ELSE "Total Games"
          ELSE "Points" IN
    [type |-> data.pickType,
     entryAmount |-> data.entryAmount,
     potentialPayout |-> data.potentialPayout,
     status |-> "pending",
     players |-> [n \in 1..playerCount |->
                    [sport |-> Sport(n - 1),
                     statType |-> StatType(n - 1),
                     matchStatus |-> IF n - 1 = 4 THEN "Final" ELSE "now"]]]

(***************************************************************************)
(* createRealisticTemplate (prizepick-training-data.ts).  The entry amount *)
(* is a Math.random draw from entryAmounts: the index drawn is the         *)
(* parameter r.                                                            *)
(***************************************************************************)
\* PRIZEPICK_TRAINING_DATA.pickTypes and the payoutMultipliers of each.
PickTypes ==
  <<[type |-> <<"2", "-", "P", "i", "c", "k">>, multiplier |-> 400],
    [type |-> <<"3", "-", "P", "i", "c", "k">>, multiplier |-> 700],
    [type |-> <<"4", "-", "P", "i", "c", "k">>, multiplier |-> 1050],
    [type |-> <<"6", "-", "P", "i", "c", "k">>, multiplier |-> 2625]>>

EntryAmounts ==
  <<200, 400, 500, 600, 1000, 1500, 2000, 2188, 3500, 4000, 5250, 15750, 23125>>

\* PRIZEPICK_TRAINING_DATA.statTypes.
TemplateStatTypes(sportKey) ==
  CASE sportKey = "Tennis" ->
         <<"Fantasy Score", "Total Games Won", "Break Points Won",
           "Total Games", "Double Faults", "Aces">>
    [] sportKey = "PGA" -> <<"Strokes", "Birdies Or Better">>
    [] OTHER -> <<"Points", "Fantasy Score", "Pts+Rebs+Asts", "Rebounds",
                  "FG Attempted", "Pts+Asts">>

\* getSportDistribution; Math.ceil(pickCount * 0.6) is (3 * pickCount + 4)
\* \div 5 for the pick counts a text can hold.
GetSportDistribution(primarySport, pickCount) ==
  IF pickCount <= 2 THEN [i \in 1..pickCount |-> primarySport]
  ELSE IF pickCount = 3
    THEN IF primarySport \in {"WNBA", "Tennis"}
           THEN <<primarySport, primarySport, primarySport>>
           ELSE <<primarySport, primarySport, "Tennis">>
  ELSE [i \in 1..pickCount |->
          IF i - 1 < (3 * pickCount + 4) \div 5 THEN primarySport
          ELSE IF primarySport = "WNBA" THEN "Tennis" ELSE "WNBA"]

CreateRealisticTemplate(t, r) ==
  LET lt == ToLowerCase(t)
      hasWNBA == \/ Includes(lt, <<"w", "n", "b", "a">>)
                 \/ Includes(lt, <<"b", "a", "s", "k", "e", "t", "b", "a", "l", "l">>)
      hasTennis == Includes(lt, <<"t", "e", "n", "n", "i", "s">>)
      hasPGA == \/ Includes(lt, <<"p", "g", "a">>)
                \/ Includes(lt, <<"g", "o", "l", "f">>)
      pickMatch == FirstIndex(lt, LAMBDA i : PickAt(lt, i) > 0)
      pickCount == IF pickMatch > 0
                     THEN ParseInt(lt, pickMatch, RunEnd(lt, Digits, pickMatch))
                     ELSE 4
      found == FirstIndex(PickTypes,
                 LAMBDA i : At(PickTypes[i].type, NumToChars(pickCount), 1))
      pickType == IF found > 0 THEN PickTypes[found] ELSE PickTypes[3]
      playType == IF Includes(lt, <<"p", "o", "w", "e", "r">>)
                    THEN <<"P", "o", "w", "e", "r", " ", "P", "l", "a", "y">>
                    ELSE <<"F", "l", "e", "x", " ", "P", "l", "a", "y">>
      primarySport == IF hasPGA /\ ~ hasWNBA /\ ~ hasTennis THEN "PGA"
                      ELSE IF hasTennis /\ ~ hasWNBA THEN "Tennis"
                      ELSE "WNBA"
      sportDistribution == GetSportDistribution(primarySport, pickCount)
      Stats(i) == TemplateStatTypes(sportDistribution[i + 1]) IN
  [type |-> pickType.type \o <<" ">> \o playType,
   entryAmount |-> EntryAmounts[r],
   potentialPayout |-> (EntryAmounts[r] * pickType.multiplier + 50) \div 100,
   status |-> "pending",
   players |-> [n \in 1..pickCount |->
                  [sport |-> sportDistribution[n],
                   statType |-> Stats(n - 1)[((n - 1) % Len(Stats(n - 1))) + 1],
                   matchStatus |-> IF (n - 1) % 5 = 4 THEN "Final" ELSE "now"]]]

CreateSmartTemplate(t, r) == <<CreateRealisticTemplate(t, r)>>

(***************************************************************************)
(* parseIntelligentPrizePickFromOCR and parseAdvancedPrizePickFromOCR.     *)
(***************************************************************************)
ParseIntelligentPrizePickFromOCR(t, r) ==
  IF QualityTooPoor(t) THEN CreateSmartTemplate(t, r)
  ELSE LET lineup == BuildLineupFromExtraction(ExtractReliableData(t)) IN
       IF lineup # Null THEN <<lineup>> ELSE CreateSmartTemplate(t, r)

ParseAdvancedPrizePickFromOCR(t, r) ==
  LET directResult == TryDirectPatternMatching(t) IN
  IF directResult.kind = "raise" THEN directResult
  ELSE IF directResult # Null THEN Value(<<directResult>>)
  ELSE Value(ParseIntelligentPrizePickFromOCR(t, r))

(***************************************************************************)
(* Recognized texts for the extraction stage: a header line (a lineup      *)
(* header, optionally followed by dollar amounts) and a body.              *)
(***************************************************************************)
Flex == <<"F", "l", "e", "x">>
Power == <<"P", "o", "w", "e", "r">>
HeaderCounts == {1, 2, 3, 4, 5, 6, 7, 10}

\* "<n>-Pick <play> Play"
Header(n, play) ==
  NumToChars(n) \o <<"-", "P", "i", "c", "k", " ">> \o play
    \o <<" ", "P", "l", "a", "y">>

\* An amount in hundredths as the screen prints it: "10", "231.25".
AmountChars(x) ==
  NumToChars(x \div 100)
    \o (IF x % 100 = 0 THEN <<>>
        ELSE <<".", DigitChars[((x % 100) \div 10) + 1], DigitChars[(x % 10) + 1]>>)

\* "$X to pay $Y"
ToPay(x, y) ==
  <<"$">> \o AmountChars(x) \o <<" ", "t", "o", " ", "p", "a", "y", " ", "$">>
    \o AmountChars(y)

\* Entry and payout pairs with 0.10 <= X < Y <= 10000.
AmountPairs == {<<1000, 23125>>, <<500, 1500>>, <<10, 1000000>>}

Bodies ==
  {<<>>,
   <<"T", "e", "n", "n", "i", "s">>,
   <<"K", "e", "l", "s", "e", "y", " ", "P", "l", "u", "m", " ",
     "P", "o", "i", "n", "t", "s", " ", "1", "6", ".", "5", " ", "n", "o", "w",
     "\n", "R", "a", "c", "h", "e", "l", " ", "B", "a", "n", "h", "a", "m", " ",
     "R", "e", "b", "o", "u", "n", "d", "s", " ", "9", ".", "5", " ",
     "n", "o", "w">>}

\* a and b with sep between them when neither is empty.
Join(a, sep, b) == IF a = <<>> THEN b ELSE IF b = <<>> THEN a ELSE a \o sep \o b

Compose(header, money, body) == Join(Join(header, <<" ">>, money), <<"\n">>, body)

ParseTexts ==
  LET headers == {<<>>, <<"1", "0", "-", "p", "i", "c", "k">>,
                  <<"2", " ", "p", "i", "c", "k", " ", "p", "o", "w", "e", "r",
                    " ", "p", "l", "a", "y">>}
                   \cup {Header(n, play) : n \in HeaderCounts, play \in {Flex, Power}}
      money == {<<>>, <<"$", "5">>} \cup {ToPay(p[1], p[2]) : p \in AmountPairs} IN
  {Compose(h, m, b) : h \in headers, m \in money, b \in Bodies}

InitParse ==
  /\ PipelineIdle
  /\ fn = "parseAdvancedPrizePickFromOCR"
  /\ arg \in ParseTexts
  /\ ret = NoValue

ApplyParse ==
  /\ fn = "parseAdvancedPrizePickFromOCR"
  /\ ret = NoValue
  /\ \E r \in DOMAIN EntryAmounts : ret' = ParseAdvancedPrizePickFromOCR(arg, r)
  /\ UNCHANGED <<fn, arg, pvars, uvars>>

SpecParse == InitParse /\ [][ApplyParse]_vars

\* C5: for every recognized text parseAdvancedPrizePickFromOCR completes
\* without raising and returns at least one lineup, whether or not an N-pick
\* header is detected.
C5_ParseNeverRaises ==
  (fn = "parseAdvancedPrizePickFromOCR" /\ ret # NoValue) =>
    (ret.kind = "value" /\ Len(ret.value) >= 1)

\* C6: for a text with an "<N>-Pick <Flex|Power> Play" header, N in 2..6, and
\* "$X to pay $Y" (0.10 <= X < Y <= 10000) as its only dollar amounts, the
\* result is a lineup of type "<N>-Pick <Flex|Power> Play" with entryAmount X
\* and potentialPayout Y.
C6_HeaderAndAmounts ==
  \A n \in HeaderCounts \cap 2..6, play \in {Flex, Power},
     p \in AmountPairs, b \in Bodies :
    (/\ fn = "parseAdvancedPrizePickFromOCR"
     /\ ret # NoValue
     /\ arg = Compose(Header(n, play), ToPay(p[1], p[2]), b)) =>
      /\ ret.kind = "value"
      /\ Len(ret.value) >= 1
      /\ ret.value[1].type = Header(n, play)
      /\ ret.value[1].entryAmount = p[1]
      /\ ret.value[1].potentialPayout = p[2]

\* The pick-count numeral a lineup type starts with.
TypePickCount(type) == ParseInt(type, 1, RunEnd(type, Digits, 1))

\* C9: every lineup the extraction stage produces has as many players as
\* the pick-count numeral of its type says, on every path.
C9_PlayersMatchType ==
  (fn = "parseAdvancedPrizePickFromOCR" /\ ret.kind = "value") =>
    \A i \in 1..Len(ret.value) :
      Len(ret.value[i].players) = TypePickCount(ret.value[i].type)

(***************************************************************************)
(* The page component: the upload handler and, where the page has one, the *)
(* review dialog.  The repository holds two versions of the page,          *)
(* client/pages/Index.tsx and part_000; the state starts with either       *)
(* mounted.  processImage is taken by its settlement here: it resolves     *)
(* with a recognized text or rejects.  A stored record keeps the stake,    *)
(* the result and the lineup of parsePrizePickLineupsToBets (id, team,     *)
(* odds and date are left out) and, as history, the upload it came from.   *)
(***************************************************************************)
MaxUploads == 2
PageSources == {"client/pages/Index.tsx", "unnamed/part_000"}

\* Texts processImage resolves with: template path, reliable-data path,
\* direct path.
PageTexts ==
  {Compose(<<>>, <<>>, <<"T", "e", "n", "n", "i", "s">>),
   Compose(Header(7, Flex), <<>>, <<>>),
   Compose(Header(6, Flex), ToPay(1000, 23125), <<>>)}

\* What the amount inputs of the review dialog can be set to.
ReviewEdits ==
  {[field |-> "entryAmount", value |-> 1000],
   [field |-> "potentialPayout", value |-> 2000]}

Mounted(source) ==
  [source |-> source,
   isProcessing |-> FALSE,
   awaiting |-> FALSE,
   uploads |-> 0,
   pendingLineup |-> Null,
   showCorrectionModal |-> FALSE,
   editedLineup |-> Null]

InitPage ==
  /\ PipelineInit
  /\ \A p \in Invocations : ~ hasCb[p]
  /\ fn = "none"
  /\ arg = NoValue
  /\ ret = NoValue
  /\ page \in {Mounted(source) : source \in PageSources}
  /\ bets = <<>>
  /\ reviewed = {}

\* parsePrizePickLineupsToBets for one lineup of upload k.
LineupToBet(k, lineup) ==
  [upload |-> k,
   stake |-> lineup.entryAmount,
   result |-> lineup.status,
   prizePickDetails |-> lineup]

\* importPrizePickData({lineups}): every lineup built here or by the dialog
\* passes validatePrizePickData; betStorage.addBets appends.
ImportPrizePickData(k, lineups) ==
  bets \o [i \in 1..Len(lineups) |-> LineupToBet(k, lineups[i])]

\* handleFileChange up to its await: the upload button is disabled while
\* isProcessing, and the open dialog is modal.
HandleFileChange ==
  /\ page.source \in PageSources
  /\ ~ page.isProcessing
  /\ ~ page.showCorrectionModal
  /\ page.uploads < MaxUploads
  /\ page' = [page EXCEPT !.isProcessing = TRUE, !.awaiting = TRUE,
                          !.uploads = @ + 1]
  /\ UNCHANGED <<bets, reviewed, pvars, hvars>>

\* processImage rejected: the catch block, then the finally block.
OcrRejected ==
  /\ page.source \in PageSources
  /\ page.awaiting
  /\ page' = [page EXCEPT !.isProcessing = FALSE, !.awaiting = FALSE]
  /\ UNCHANGED <<bets, reviewed, pvars, hvars>>

\* processImage resolved with text t: the rest of the try block, then the
\* finally block.  A raise of the parser is caught like a rejection.
OcrResolved(t, r) ==
  /\ page.source \in PageSources
  /\ page.awaiting
  /\ \E parsed \in {ParseAdvancedPrizePickFromOCR(t, r)},
        done \in {[page EXCEPT !.isProcessing = FALSE, !.awaiting = FALSE]} :
       IF parsed.kind = "raise" \/ Len(parsed.value) = 0
         THEN page' = done /\ bets' = bets
       ELSE IF page.source = "client/pages/Index.tsx"
         THEN /\ page' = done
              /\ bets' = ImportPrizePickData(page.uploads, parsed.value)
       ELSE /\ page' = [done EXCEPT !.pendingLineup = parsed.value[1],
                                    !.showCorrectionModal = TRUE,
                                    !.editedLineup = parsed.value[1]]
            /\ bets' = bets
  /\ UNCHANGED <<reviewed, pvars, hvars>>

\* updateLineupInfo(field, value) in the review dialog.
UpdateLineupInfo(e) ==
  /\ page.source = "unnamed/part_000"
  /\ page.showCorrectionModal
  /\ page.editedLineup[e.field] # e.value
  /\ page' = [page EXCEPT !.editedLineup = [@ EXCEPT ![e.field] = e.value]]
  /\ UNCHANGED <<bets, reviewed, pvars, hvars>>

\* The dialog's confirm button: onConfirm(editedLineup), which is
\* confirmCorrectedLineup.
ConfirmCorrectedLineup ==
  /\ page.source = "unnamed/part_000"
  /\ page.showCorrectionModal
  /\ reviewed' = reviewed \cup {[upload |-> page.uploads,
                                 lineup |-> page.editedLineup]}
  /\ bets' = ImportPrizePickData(page.uploads, <<page.editedLineup>>)
  /\ page' = [page EXCEPT !.showCorrectionModal = FALSE,
                          !.pendingLineup = Null, !.editedLineup = Null]
  /\ UNCHANGED <<pvars, hvars>>

\* The dialog's cancel button.
CancelCorrection ==
  /\ page.source = "unnamed/part_000"
  /\ page.showCorrectionModal
  /\ page' = [page EXCEPT !.showCorrectionModal = FALSE,
                          !.pendingLineup = Null, !.editedLineup = Null]
  /\ UNCHANGED <<bets, reviewed, pvars, hvars>>

NextPage ==
  \/ HandleFileChange
  \/ OcrRejected
  \/ \E t \in PageTexts, r \in DOMAIN EntryAmounts : OcrResolved(t, r)
  \/ \E e \in ReviewEdits : UpdateLineupInfo(e)
  \/ ConfirmCorrectedLineup
  \/ CancelCorrection

SpecPage == InitPage /\ [][NextPage]_vars

\* C8: a lineup extracted from an uploaded image is stored only after the
\* review has confirmed it, and the stored lineup is the one the review
\* returned for that upload; without a confirmation nothing of the upload
\* is stored.
C8_StoredOnlyAfterReview ==
  \A i \in 1..Len(bets) :
    [upload |-> bets[i].upload, lineup |-> bets[i].prizePickDetails]
      \in reviewed

(***************************************************************************)
(* scoreOCRResult under appended characters: a text is scored, then        *)
(* characters that are neither letters nor digits are appended one at a    *)
(* time and the text is scored again.                                      *)
(***************************************************************************)
MaxAppended == 2

\* Characters that are neither letters nor digits: four that the class
\* /[^a-zA-Z0-9\s\$\.\-]/ of the scorer matches and four that it does not.
NonAlphanumerics == {"#", "@", "!", "|", "-", ".", "$", " "}

ScoreInputs ==
  {[text |-> t, confidence |-> c] :
     t \in {<<>>, <<"P", "i", "c", "k">>, <<"$", "5", "#", "#">>, <<"$">>,
            <<"F", "l", "e", "x", " ", "P", "l", "a", "y">>},
     c \in {0, 60, 95}}

InitScore ==
  /\ PipelineIdle
  /\ fn = "scoreOCRResult"
  /\ arg \in ScoreInputs
  /\ ret = NoValue

\* scoreOCRResult(data).
ApplyScore ==
  /\ fn = "scoreOCRResult"
  /\ ret = NoValue
  /\ ret' = [kind |-> "value", value |-> ScoreOCRResult(arg),
             base |-> ScoreOCRResult(arg), appended |-> <<>>]
  /\ UNCHANGED <<fn, arg, pvars, uvars>>

\* scoreOCRResult of the same data with c appended to the text.
ScoreAppended(c) ==
  /\ fn = "scoreOCRResult"
  /\ ret.kind = "value"
  /\ Len(ret.appended) < MaxAppended
  /\ arg' = [arg EXCEPT !.text = @ \o <<c>>]
  /\ ret' = [ret EXCEPT !.value = ScoreOCRResult(arg'),
                        !.appended = @ \o <<c>>]
  /\ UNCHANGED <<fn, pvars, uvars>>

SpecScore ==
  InitScore /\ [][ApplyScore \/ \E c \in NonAlphanumerics : ScoreAppended(c)]_vars

\* C11 as stated: appending any characters that are neither letters nor
\* digits lowers scoreOCRResult by 0.5 (one half point) per appended
\* character.
C11_AnyNonAlphanumericLowers ==
  (fn = "scoreOCRResult" /\ ret.kind = "value") =>
    ret.value = ret.base - Len(ret.appended)

\* C11 amended: appending characters outside [a-zA-Z0-9\s$.-] lowers
\* scoreOCRResult by 0.5 (one half point) per appended character, so more
\* of them always means a lower score.
C11_NoiseLowers ==
  (/\ fn = "scoreOCRResult"
   /\ ret.kind = "value"
   /\ \A i \in 1..Len(ret.appended) : IsNoiseChar(ret.appended[i])) =>
    ret.value = ret.base - Len(ret.appended)

\* Two noise characters were appended to a text that earns a bonus.
C11_Witness ==
  /\ fn = "scoreOCRResult"
  /\ ret.kind = "value"
  /\ Len(ret.appended) = 2
  /\ \A i \in 1..Len(ret.appended) : IsNoiseChar(ret.appended[i])
  /\ ret.base > 2 * arg.confidence
  /\ ret.value = ret.base - 2

(***************************************************************************)
(* extractDirectDollarPatterns (money strategy 1).  Amounts are in         *)
(* hundredths and confidences in hundredths (0.9 is 90).                   *)
(***************************************************************************)
\* dollarPatterns[k] matched at position i: where its group starts and ends
\* and where the match ends (positions after the last character), or
\* end = 0 when it does not match there.
\*   1  /\$(\d+\.\d{2})/g          2  /\$(\d+\.?\d{0,2})/g
\*   3  /(\d+\.\d{2})\s*dollars?/gi  4  /\$\s*(\d+\.?\d{0,2})/g
DollarPatternAt(t, k, i) ==
  LET NoMatch == [from |-> 0, to |-> 0, end |-> 0]
      c == IF k = 3 THEN i
           ELSE IF k = 4 THEN RunEnd(t, Spaces, i + 1) ELSE i + 1
      j == RunEnd(t, Digits, c)
      TwoDecimals == /\ j + 2 <= Len(t)
                     /\ t[j] = "."
                     /\ t[j + 1] \in Digits
                     /\ t[j + 2] \in Digits
      d == IF j <= Len(t) /\ t[j] = "." THEN j + 1 ELSE j
      e == Min2(RunEnd(t, Digits, d), d + 2)
      w == RunEnd(t, Spaces, j + 3) IN
  IF (k # 3 /\ t[i] # "$") \/ j = c THEN NoMatch
  ELSE IF k \in {2, 4} THEN [from |-> c, to |-> e, end |-> e]
  ELSE IF ~ TwoDecimals THEN NoMatch
  ELSE IF k = 1 THEN [from |-> c, to |-> j + 3, end |-> j + 3]
  ELSE IF At(ToLowerCase(t), <<"d", "o", "l", "l", "a", "r">>, w)
    THEN [from |-> c, to |-> j + 3,
          end |-> IF w + 6 <= Len(t) /\ ToLowerChar(t[w + 6]) = "s"
                    THEN w + 7 ELSE w + 6]
  ELSE NoMatch

\* The while loop over pattern.exec(text) for dollarPatterns[k], from
\* position i: the amounts pushed, in order.
\* The amount of a match, kept when 0.1 <= amount <= 10000.
DollarMatchAmount(t, m) ==
  LET amount == ParseFloat(t, m.from, m.to) IN
  IF amount >= 10 /\ amount <= 1000000 THEN <<amount>> ELSE <<>>

\* The while loop over pattern.exec(text) for dollarPatterns[k], from
\* position i: the amounts pushed, in order.
RECURSIVE DollarPatternAmounts(_, _, _)
DollarPatternAmounts(t, k, i) ==
  IF i > Len(t) THEN <<>>
  ELSE LET m == DollarPatternAt(t, k, i) IN
       IF m.end = 0 THEN DollarPatternAmounts(t, k, i + 1)
       ELSE DollarMatchAmount(t, m) \o DollarPatternAmounts(t, k, m.end)

\* [...new Set(amounts)].sort((a, b) => a - b)
UniqueSorted(amounts) ==
  LET unique == {amounts[i] : i \in DOMAIN amounts} IN
  [n \in 1..Cardinality(unique) |->
     CHOOSE a \in unique : Cardinality({b \in unique : b <= a}) = n]

\* A selection that counts the amounts without removing repeats.
DirectDollarResultNoDedupe(amounts) ==
  IF Len(amounts) >= 2
    THEN [entryAmount |-> UniqueSorted(amounts)[1],
          potentialPayout |-> UniqueSorted(amounts)[Len(UniqueSorted(amounts))],
          confidence |-> 90]
    ELSE [entryAmount |-> 0, potentialPayout |-> 0, confidence |-> 10]

\* The result extractDirectDollarPatterns builds from the amounts pushed.
DirectDollarResult(amounts) ==
  IF Len(UniqueSorted(amounts)) >= 2
    THEN [entryAmount |-> UniqueSorted(amounts)[1],
          potentialPayout |-> UniqueSorted(amounts)[Len(UniqueSorted(amounts))],
          confidence |-> 90]
    ELSE [entryAmount |-> 0, potentialPayout |-> 0, confidence |-> 10]

ExtractDirectDollarPatterns(t) ==
  DirectDollarResult(DollarPatternAmounts(t, 1, 1) \o DollarPatternAmounts(t, 2, 1)
                     \o DollarPatternAmounts(t, 3, 1) \o DollarPatternAmounts(t, 4, 1))

\* Amounts as a screen prints them, each with its value in hundredths:
\* plain, with decimals, spaced, spelled with "dollars", and two outside
\* [0.10, 10000].
MaxAmounts == 3
AmountTokens ==
  {[chars |-> <<"$", "5">>, value |-> 500],
   [chars |-> <<"$", "5", ".", "0", "0">>, value |-> 500],
   [chars |-> <<"$", "3", "5">>, value |-> 3500],
   [chars |-> <<"$", " ", "7", ".", "5", "0">>, value |-> 750],
   [chars |-> <<"7", ".", "5", "0", " ", "d", "o", "l", "l", "a", "r", "s">>,
    value |-> 750],
   [chars |-> <<"$", "0", ".", "0", "5">>, value |-> 5],
   [chars |-> <<"$", "2", "0", "0", "0", "0">>, value |-> 2000000]}

AmountLists == UNION {[1..n -> AmountTokens] : n \in 0..MaxAmounts}

\* The tokens of l, separated by spaces.
RECURSIVE MoneyText(_)
MoneyText(l) ==
  IF l = <<>> THEN <<>>
  ELSE Join(l[1].chars, <<" ">>, MoneyText(Tail(l)))

InitDirect ==
  /\ PipelineIdle
  /\ fn = "extractDirectDollarPatterns"
  /\ arg \in {MoneyText(l) : l \in AmountLists}
  /\ ret = NoValue

ApplyDirect ==
  /\ fn = "extractDirectDollarPatterns"
  /\ ret = NoValue
  /\ ret' = Value(ExtractDirectDollarPatterns(arg))
  /\ UNCHANGED <<fn, arg, pvars, uvars>>

SpecDirect == InitDirect /\ [][ApplyDirect]_vars

\* The values of the amounts of l that lie in [0.10, 10000].
UsableValues(l) ==
  {l[i].value : i \in DOMAIN l} \cap 10..1000000

\* C12: when the dollar amounts of the text within [0.10, 10000] hold at
\* least two distinct values, extractDirectDollarPatterns returns the
\* smallest as entry and the largest as payout with confidence 0.9, whatever
\* their order and repeats; with fewer than two distinct values it returns
\* entry = payout = 0.
C12_DirectMinMax ==
  (fn = "extractDirectDollarPatterns" /\ ret.kind = "value") =>
    \A l \in AmountLists :
      arg = MoneyText(l) =>
        IF Cardinality(UsableValues(l)) >= 2
          THEN /\ \A v \in UsableValues(l) :
                    ret.value.entryAmount <= v /\ v <= ret.value.potentialPayout
               /\ ret.value.entryAmount \in UsableValues(l)
               /\ ret.value.potentialPayout \in UsableValues(l)
               /\ ret.value.confidence = 90
          ELSE ret.value.entryAmount = 0 /\ ret.value.potentialPayout = 0

\* "$35 $5 $5": the largest comes first and the smallest is repeated.
C12_Witness ==
  /\ fn = "extractDirectDollarPatterns"
  /\ ret.kind = "value"
  /\ arg = <<"$", "3", "5", " ", "$", "5", " ", "$", "5">>
  /\ ret.value = [entryAmount |-> 500, potentialPayout |-> 3500, confidence |-> 90]

\* ---------------------------------------------------------------------
\* Validation stage: validateExtractedData and its helpers.  Amounts and
\* betting lines are in hundredths; sports and stat types are atoms, names
\* and lineup types are texts.
\* ---------------------------------------------------------------------

Undefined == [kind |-> "undefined"]

\* An error message: its wording and the values interpolated into it.
Err(msg, player, a, b) == [msg |-> msg, player |-> player, a |-> a, b |-> b]

\* t.split(sep)[0]: the text before the first occurrence of the character.
SplitHead(t, sep) ==
  LET hits == {i \in 1..Len(t) : t[i] = sep} IN
  IF hits = {} THEN t
  ELSE SubSeq(t, 1, (CHOOSE i \in hits : \A j \in hits : i <= j) - 1)

\* t.split(" "): the parts between single spaces, empty parts included.
RECURSIVE SplitSpaces(_)
SplitSpaces(t) ==
  LET head == SplitHead(t, " ") IN
  IF Len(head) = Len(t) THEN <<t>>
  ELSE <<head>> \o SplitSpaces(SubSeq(t, Len(head) + 2, Len(t)))

\* parseInt(t): leading white space, then a run of digits; NaN without one.
ParseIntPrefix(t) ==
  LET i == RunEnd(t, Spaces, 1)
      j == RunEnd(t, Digits, i) IN
  IF j = i THEN NaN ELSE [kind |-> "number", n |-> ParseInt(t, i, j)]

InvalidNames ==
  << <<"P", "o", "w", "e", "r", " ", "P", "l", "a", "y">>, <<"F", "l", "e", "x", " ", "P", "l", "a", "y">>, <<"P", "i", "c", "k">>, <<"P", "r", "i", "z", "e", "P", "i", "c", "k", "s">>,
     <<"T", "o", "t", "a", "l", " ", "G", "a", "m", "e", "s">>, <<"F", "a", "n", "t", "a", "s", "y", " ", "S", "c", "o", "r", "e">>, <<"D", "o", "u", "b", "l", "e", " ", "F", "a", "u", "l", "t", "s">>, <<"H", "o", "m", "e", " ", "R", "u", "n", "s">>,
     <<"F", "i", "e", "l", "d", " ", "G", "o", "a", "l", "s">>, <<"T", "o", "u", "c", "h", " ", "D", "o", "w", "n", "s">>, <<"B", "a", "s", "e", " ", "H", "i", "t", "s">>, <<"F", "i", "n", "a", "l", " ", "S", "c", "o", "r", "e">>,
     <<"G", "a", "m", "e", " ", "T", "i", "m", "e">>, <<"L", "i", "v", "e", " ", "S", "c", "o", "r", "e">>, <<"W", "i", "n", " ", "L", "o", "s", "s">>, <<"O", "v", "e", "r", " ", "U", "n", "d", "e", "r">> >>

\* invalid.toLowerCase() of each entry.
InvalidNamesLower == [k \in DOMAIN InvalidNames |-> ToLowerCase(InvalidNames[k])]

NameSpecials ==
  Digits \cup {"@", "#", "$", "%", "^", "&", "*", "(", ")", ",", ".", "?",
               "\"", ":", "{", "}", "|", "<", ">"}

IsValidPlayerName(name) ==
  LET nameLower == ToLowerCase(name)
      parts == SplitSpaces(name) IN
  IF \E k \in DOMAIN InvalidNamesLower :
       Includes(nameLower, InvalidNamesLower[k]) THEN FALSE
  ELSE IF Len(name) < 4 THEN FALSE
  ELSE IF ~Includes(name, <<" ">>) THEN FALSE
  ELSE IF name[1] \notin Upper THEN FALSE
  ELSE IF \E i \in DOMAIN name : name[i] \in NameSpecials THEN FALSE
  ELSE IF Len(parts) < 2 THEN FALSE
  ELSE \A k \in DOMAIN parts :
         /\ Len(parts[k]) >= 2
         /\ parts[k][1] \in Upper
         /\ parts[k][2] \in Lower

ValidRanges ==
  << [key |-> <<"2", "-", "P", "i", "c", "k">>, min |-> 100, max |-> 10000, common0 |-> 250],
     [key |-> <<"3", "-", "P", "i", "c", "k">>, min |-> 100, max |-> 20000, common0 |-> 250],
     [key |-> <<"4", "-", "P", "i", "c", "k">>, min |-> 100, max |-> 50000, common0 |-> 500],
     [key |-> <<"5", "-", "P", "i", "c", "k">>, min |-> 100, max |-> 50000, common0 |-> 1000],
     [key |-> <<"6", "-", "P", "i", "c", "k">>, min |-> 100, max |-> 100000, common0 |-> 400] >>

\* table[lineupType] || table["2-Pick"]
ByLineupType(table, lineupType) ==
  IF \E k \in DOMAIN table : table[k].key = lineupType
    THEN table[CHOOSE k \in DOMAIN table : table[k].key = lineupType]
    ELSE table[1]

ValidateEntryAmount(amount, lineupType) ==
  LET range == ByLineupType(ValidRanges, lineupType) IN
  IF amount <= 0
    THEN [isValid |-> FALSE, errors |-> <<Err("entry not positive", 0, amount, 0)>>,
          suggestedValue |-> 500]
  ELSE IF amount > 100000
    THEN [isValid |-> FALSE, errors |-> <<Err("entry too high", 0, amount, 0)>>,
          suggestedValue |-> 5000]
  ELSE IF amount < range.min \/ amount > range.max
    THEN [isValid |-> FALSE,
          errors |-> <<Err("entry outside range", 0, range.min, range.max)>>,
          suggestedValue |-> range.common0]
  ELSE [isValid |-> TRUE, errors |-> <<>>, suggestedValue |-> 0]

ValidatePotentialPayout(payout, entry, lineupType) ==
  IF payout <= 0
    THEN [isValid |-> FALSE, errors |-> <<Err("payout not positive", 0, payout, 0)>>,
          suggestedValue |-> entry * 2]
  ELSE IF payout < entry
    THEN [isValid |-> FALSE, errors |-> <<Err("payout below entry", 0, payout, entry)>>,
          suggestedValue |-> entry * 2]
  ELSE IF payout > entry * 100
    THEN [isValid |-> FALSE, errors |-> <<Err("payout too high", 0, payout, entry)>>,
          suggestedValue |-> entry * 10]
  ELSE [isValid |-> TRUE, errors |-> <<>>, suggestedValue |-> 0]

\* The bands in tenths of a multiple.
ExpectedRatios ==
  << [key |-> <<"2", "-", "P", "i", "c", "k">>, min |-> 15, max |-> 100],
     [key |-> <<"3", "-", "P", "i", "c", "k">>, min |-> 20, max |-> 150],
     [key |-> <<"4", "-", "P", "i", "c", "k">>, min |-> 15, max |-> 200],
     [key |-> <<"5", "-", "P", "i", "c", "k">>, min |-> 50, max |-> 500],
     [key |-> <<"6", "-", "P", "i", "c", "k">>, min |-> 50, max |-> 500] >>

\* payout / entry < tenths / 10, the quotient being an infinity when only
\* the entry is 0 and NaN (no comparison holds) when both are.
RatioBelow(entry, payout, tenths) ==
  IF entry > 0 THEN 10 * payout < tenths * entry
  ELSE IF entry < 0 THEN 10 * payout > tenths * entry
  ELSE payout < 0

RatioAbove(entry, payout, tenths) ==
  IF entry > 0 THEN 10 * payout > tenths * entry
  ELSE IF entry < 0 THEN 10 * payout < tenths * entry
  ELSE payout > 0

ValidatePayoutRatio(entry, payout, lineupType) ==
  LET expected == ByLineupType(ExpectedRatios, lineupType) IN
  IF RatioBelow(entry, payout, expected.min) \/ RatioAbove(entry, payout, expected.max)
    THEN [isValid |-> FALSE,
          errors |-> <<Err("ratio unusual", 0, expected.min, expected.max)>>]
    ELSE [isValid |-> TRUE, errors |-> <<>>]

ValidSports == {"WNBA", "NBA", "MLB", "NFL", "NHL", "Tennis", "Soccer", "MMA", "Golf"}

SportRanges ==
  { [sport |-> "WNBA", statType |-> "Points", min |-> 100, max |-> 4000],
    [sport |-> "WNBA", statType |-> "Rebounds", min |-> 100, max |-> 2000],
    [sport |-> "WNBA", statType |-> "Assists", min |-> 100, max |-> 1500],
    [sport |-> "WNBA", statType |-> "Fantasy Score", min |-> 500, max |-> 6000],
    [sport |-> "MLB", statType |-> "Hits", min |-> 50, max |-> 500],
    [sport |-> "MLB", statType |-> "Home Runs", min |-> 50, max |-> 300],
    [sport |-> "MLB", statType |-> "RBIs", min |-> 50, max |-> 800],
    [sport |-> "MLB", statType |-> "Hitter Fantasy Score", min |-> 200, max |-> 2000],
    [sport |-> "Tennis", statType |-> "Total Games", min |-> 1000, max |-> 4000],
    [sport |-> "Tennis", statType |-> "Aces", min |-> 100, max |-> 2000],
    [sport |-> "Tennis", statType |-> "Fantasy Score", min |-> 1000, max |-> 3000],
    [sport |-> "Golf", statType |-> "Strokes", min |-> 6500, max |-> 7500],
    [sport |-> "Golf", statType |-> "Birdies Or Better", min |-> 50, max |-> 500],
    [sport |-> "Soccer", statType |-> "Passes Attempted", min |-> 1000, max |-> 10000],
    [sport |-> "Soccer", statType |-> "Shots On Target", min |-> 50, max |-> 1000],
    [sport |-> "Soccer", statType |-> "Goals", min |-> 50, max |-> 500] }

StatRanges(sport, statType) ==
  {r \in SportRanges : r.sport = sport /\ r.statType = statType}

\* The check with the lower limit alone.
ValidateLineForSportMinOnly(line, sport, statType) ==
  IF StatRanges(sport, statType) = {} THEN [isValid |-> TRUE, error |-> <<>>]
  ELSE LET statRange == CHOOSE r \in StatRanges(sport, statType) : TRUE IN
       IF line < statRange.min
         THEN [isValid |-> FALSE,
               error |-> <<Err("line outside range", 0, statRange.min, statRange.max)>>]
         ELSE [isValid |-> TRUE, error |-> <<>>]

ValidateLineForSport(line, sport, statType) ==
  IF StatRanges(sport, statType) = {} THEN [isValid |-> TRUE, error |-> <<>>]
  ELSE LET statRange == CHOOSE r \in StatRanges(sport, statType) : TRUE IN
       IF line < statRange.min \/ line > statRange.max
         THEN [isValid |-> FALSE,
               error |-> <<Err("line outside range", 0, statRange.min, statRange.max)>>]
         ELSE [isValid |-> TRUE, error |-> <<>>]

\* "Player N" for a one-digit N.
PlaceholderName(n) == << "P", "l", "a", "y", "e", "r", " " >> \o NumToChars(n)

LineUnreasonable(line) == line < 10 \/ line > 20000

\* index is 0-based, as forEach passes it.
ValidateSinglePlayer(player, index) ==
  LET lineValidation ==
        ValidateLineForSport(player.line, player.sport, player.statType) IN
     (IF player.name = <<>> \/ player.name = PlaceholderName(index + 1)
        THEN <<Err("no valid name", index + 1, 0, 0)>>
      ELSE IF ~IsValidPlayerName(player.name)
        THEN <<Err("not a valid name", index + 1, 0, 0)>>
      ELSE <<>>)
  \o (IF player.sport \notin ValidSports
        THEN <<Err("invalid sport", index + 1, 0, 0)>> ELSE <<>>)
  \o (IF LineUnreasonable(player.line)
        THEN <<Err("invalid line", index + 1, player.line, 0)>> ELSE <<>>)
  \o (IF ~lineValidation.isValid
        THEN [k \in DOMAIN lineValidation.error |->
                [lineValidation.error[k] EXCEPT !.player = index + 1]]
        ELSE <<>>)

\* The objects of the call: data records, arrays of references and player
\* objects, each kind under its references.
DataRef == <<"data", 0>>
PlayersRef == <<"players", 0>>
PlayerRef(i) == <<"player", i>>
CorrectedDataRef == <<"correctedData", 0>>
CorrectedPlayersRef == <<"correctedPlayers", 0>>
CorrectedRef(i) == <<"corrected", i>>

\* { ...source } stored under a new reference.
SpreadRecord(h, kind, ref, source) ==
  [h EXCEPT ![kind] = (ref :> h[kind][source]) @@ h[kind]]

\* object.field = value
Assign(h, kind, ref, field, value) ==
  [h EXCEPT ![kind][ref][field] = value]

\* if (!isValidPlayerName(corrected.name)) corrected.name = "Unknown Player"
CorrectName(h, corrected) ==
  IF ~IsValidPlayerName(h.objects[corrected].name)
    THEN Assign(h, "objects", corrected, "name",
                << "U", "n", "k", "n", "o", "w", "n", " ", "P", "l", "a", "y", "e", "r" >>)
    ELSE h

\* if (!validSports.includes(corrected.sport)) corrected.sport = "Unknown"
CorrectSport(h, corrected) ==
  IF h.objects[corrected].sport \notin ValidSports
    THEN Assign(h, "objects", corrected, "sport", "Unknown") ELSE h

\* The unreasonable line becomes 10.
CorrectLine(h, corrected) ==
  IF LineUnreasonable(h.objects[corrected].line)
    THEN Assign(h, "objects", corrected, "line", 1000) ELSE h

\* corrected = player: the corrections written to the object given.
CorrectPlayerDataInPlace(h, player, fresh) ==
  [heap |-> CorrectLine(CorrectSport(CorrectName(h, player), player), player),
   ref |-> player]

\* corrected = { ...player }, stored under the reference fresh.
CorrectPlayerData(h, player, fresh) ==
  [heap |-> CorrectLine(CorrectSport(CorrectName(
              SpreadRecord(h, "objects", fresh, player), fresh), fresh), fresh),
   ref |-> fresh]

\* parseInt(lineupType.split("-")[0]) || 2
ExpectedCount(lineupType) ==
  LET parsed == ParseIntPrefix(SplitHead(lineupType, "-")) IN
  IF parsed.kind = "NaN" \/ parsed.n = 0 THEN 2 ELSE parsed.n

\* The player-count check.
CountErrors(found, expectedCount) ==
  IF found # expectedCount
    THEN <<Err("player count", 0, expectedCount, found)>> ELSE <<>>

\* correctedPlayers[index] = c, with the player's errors pushed; st holds the
\* heap and the errors so far, c the heap and reference correctPlayerData
\* returns.
StoreCorrected(st, playerErrors, c, correctedPlayers, index) ==
  [heap |-> [c.heap EXCEPT !.arrays[correctedPlayers][index] = c.ref],
   errors |-> st.errors \o playerErrors]

\* The body of the forEach callback once the player's errors are known.
CorrectIfErrors(st, player, playerErrors, correctedPlayers, index) ==
  IF playerErrors = <<>> THEN st
  ELSE StoreCorrected(st, playerErrors,
                      CorrectPlayerData(st.heap, player, CorrectedRef(index)),
                      correctedPlayers, index)

\* players.forEach from position index (1-based here) on.
RECURSIVE ForEachPlayer(_, _, _, _)
ForEachPlayer(st, players, correctedPlayers, index) ==
  IF index > Len(st.heap.arrays[players]) THEN st
  ELSE ForEachPlayer(
         CorrectIfErrors(
           st, st.heap.arrays[players][index],
           ValidateSinglePlayer(
             st.heap.objects[st.heap.arrays[players][index]], index - 1),
           correctedPlayers, index),
         players, correctedPlayers, index + 1)

\* The return statement of validatePlayers.
PlayersResult(st, correctedPlayers) ==
  [heap |-> st.heap,
   isValid |-> st.errors = <<>>,
   errors |-> st.errors,
   correctedPlayers |-> IF st.errors # <<>> THEN correctedPlayers ELSE Undefined]

ValidatePlayers(h, players, lineupType) ==
  PlayersResult(
    ForEachPlayer(
      [heap |-> SpreadRecord(h, "arrays", CorrectedPlayersRef, players),
       errors |-> CountErrors(Len(h.arrays[players]), ExpectedCount(lineupType))],
      players, CorrectedPlayersRef, 1),
    CorrectedPlayersRef)

\* The report with the copy returned whatever the errors.
ValidationReportAlwaysCopy(st, correctedData) ==
  [isValid |-> st.errors = <<>>,
   errors |-> st.errors,
   correctedData |-> correctedData,
   heap |-> st.heap]

\* The return statement; heap is the objects as the call leaves them.
ValidationReport(st, correctedData) ==
  [isValid |-> st.errors = <<>>,
   errors |-> st.errors,
   correctedData |-> IF st.errors # <<>> THEN correctedData ELSE Undefined,
   heap |-> st.heap]

\* if (!v.isValid) { errors.push(...v.errors);
\*                   if (v.suggestedValue) correctedData[field] = v.suggestedValue }
MergeValidation(st, v, correctedData, field) ==
  IF v.isValid THEN st
  ELSE [heap |-> IF v.suggestedValue # 0
                   THEN Assign(st.heap, "data", correctedData, field, v.suggestedValue)
                   ELSE st.heap,
        errors |-> st.errors \o v.errors]

\* if (!v.isValid) errors.push(...v.errors)
MergeErrors(st, v) ==
  IF v.isValid THEN st ELSE [heap |-> st.heap, errors |-> st.errors \o v.errors]

\* The players block: v is what validatePlayers returned, its heap included.
MergePlayers(st, v, correctedData) ==
  IF v.isValid THEN [heap |-> v.heap, errors |-> st.errors]
  ELSE [heap |-> IF v.correctedPlayers # Undefined
                   THEN Assign(v.heap, "data", correctedData, "players",
                               v.correctedPlayers)
                   ELSE v.heap,
        errors |-> st.errors \o v.errors]

\* The players block on the state the amount checks left.
PlayersStep(st, d, correctedData) ==
  MergePlayers(st, ValidatePlayers(st.heap, d.players, d.lineupType), correctedData)

\* The four checks in order on the record d, from the state st after
\* correctedData = { ...data }.
RunChecks(st, d, correctedData) ==
  PlayersStep(
    MergeErrors(
      MergeValidation(
        MergeValidation(
          st, ValidateEntryAmount(d.entryAmount, d.lineupType),
          correctedData, "entryAmount"),
        ValidatePotentialPayout(d.potentialPayout, d.entryAmount, d.lineupType),
        correctedData, "potentialPayout"),
      ValidatePayoutRatio(d.entryAmount, d.potentialPayout, d.lineupType)),
    d, correctedData)

ValidateExtractedData(h, data) ==
  ValidationReport(
    RunChecks([heap |-> SpreadRecord(h, "data", CorrectedDataRef, data),
               errors |-> <<>>],
              h.data[data], CorrectedDataRef),
    CorrectedDataRef)

\* Calls of validateExtractedData on records of up to MaxPlayers players.
MaxPlayers == 3

SamplePlayers ==
  { [name |-> <<"A", "n", "n", " ", "L", "e", "e">>, sport |-> "WNBA", statType |-> "Points", line |-> 2250],
    [name |-> <<"B", "o", " ", "R", "a", "y">>, sport |-> "WNBA", statType |-> "Points", line |-> 8500],
    [name |-> <<"C", "y", " ", "F", "o", "x">>, sport |-> "NBA", statType |-> "Points", line |-> 8500],
    [name |-> <<"P", "l", "a", "y", "e", "r", " ", "1">>, sport |-> "Cricket", statType |-> "Runs", line |-> 5] }

SampleLineupTypes ==
  { <<"4", "-", "P", "i", "c", "k", " ", "F", "l", "e", "x", " ", "P", "l", "a", "y">>,
    <<"3", "-", "P", "i", "c", "k", " ", "P", "o", "w", "e", "r", " ", "P", "l", "a", "y">>,
    <<"2", "-", "P", "i", "c", "k">>, <<"0", "-", "P", "i", "c", "k">>,
    <<"P", "o", "w", "e", "r", " ", "P", "l", "a", "y">> }

\* Entry and payout together: all zero, a usual pair, a payout above a
\* hundred entries, an entry above 1000 with a lower payout, and an entry
\* below the table's minimum.
SampleAmounts ==
  { [entry |-> 0, payout |-> 0], [entry |-> 500, payout |-> 1500],
    [entry |-> 500, payout |-> 100000], [entry |-> 150000, payout |-> 1500],
    [entry |-> 50, payout |-> 60] }

PlayerLists == UNION {[1..n -> SamplePlayers] : n \in 0..MaxPlayers}

\* The objects a caller holds: the record, its players array, its players.
InputHeap(lineupType, entryAmount, potentialPayout, ps) ==
  [data |-> DataRef :> [lineupType |-> lineupType,
                        entryAmount |-> entryAmount,
                        potentialPayout |-> potentialPayout,
                        players |-> PlayersRef],
   arrays |-> PlayersRef :> [i \in 1..Len(ps) |-> PlayerRef(i)],
   objects |-> [r \in {PlayerRef(i) : i \in 1..Len(ps)} |-> ps[r[2]]]]

InitValidate ==
  /\ PipelineIdle
  /\ fn = "validateExtractedData"
  /\ \E t \in SampleLineupTypes, a \in SampleAmounts, ps \in PlayerLists :
       arg = [heap |-> InputHeap(t, a.entry, a.payout, ps), data |-> DataRef]
  /\ ret = NoValue

ApplyValidate ==
  /\ fn = "validateExtractedData"
  /\ ret = NoValue
  /\ ret' = Value(ValidateExtractedData(arg.heap, arg.data))
  /\ UNCHANGED <<fn, arg, pvars, uvars>>

SpecValidate == InitValidate /\ [][ApplyValidate]_vars

\* The record given and the players it holds, as the caller passed them.
GivenData == arg.heap.data[arg.data]
GivenPlayers ==
  [i \in DOMAIN arg.heap.arrays[GivenData.players] |->
     arg.heap.objects[arg.heap.arrays[GivenData.players][i]]]
Validated == fn = "validateExtractedData" /\ ret.kind = "value"

\* The numeral the lineup type begins with.
TypeNumeral == ParseIntPrefix(SplitHead(GivenData.lineupType, "-"))

\* C13: a record whose players list length differs from the numeral of its
\* type is reported invalid with an error naming the expected and the found
\* count, and a record where the two are equal gets no player-count error.
C13_CountMismatchReported ==
  (Validated /\ TypeNumeral.kind = "number") =>
    IF Len(GivenPlayers) # TypeNumeral.n
      THEN /\ ~ret.value.isValid
           /\ \E k \in DOMAIN ret.value.errors :
                ret.value.errors[k]
                  = Err("player count", 0, TypeNumeral.n, Len(GivenPlayers))
      ELSE \A k \in DOMAIN ret.value.errors :
             ret.value.errors[k].msg # "player count"

\* Player i (1-based) of the record given has a range violation reported.
RangeFlagged(i) ==
  \E k \in DOMAIN ret.value.errors :
    /\ ret.value.errors[k].msg = "line outside range"
    /\ ret.value.errors[k].player = i

\* C14: a player's line is reported as a range violation exactly when the
\* {sport, statType} pair is in the range table and the line lies outside
\* [min, max] (WNBA Points 85 is flagged, 22.5 is not); a violation makes
\* the report invalid, and a pair absent from the table is never flagged.
C14_RangeViolations ==
  Validated =>
    \A i \in DOMAIN GivenPlayers :
      LET p == GivenPlayers[i] IN
      /\ RangeFlagged(i) <=>
           \E r \in SportRanges :
             /\ r.sport = p.sport /\ r.statType = p.statType
             /\ (p.line < r.min \/ p.line > r.max)
      /\ RangeFlagged(i) => ~ret.value.isValid
      /\ (p.sport = "WNBA" /\ p.statType = "Points") =>
           (RangeFlagged(i) <=> (p.line < 100 \/ p.line > 4000))

\* WNBA Points 22.5, WNBA Points 85 and NBA Points 85 in one record: only
\* the second is flagged.
C14_Witness ==
  /\ Validated
  /\ Len(GivenPlayers) = 3
  /\ GivenPlayers[1].sport = "WNBA" /\ GivenPlayers[1].line = 2250
  /\ GivenPlayers[2].sport = "WNBA" /\ GivenPlayers[2].line = 8500
  /\ GivenPlayers[3].sport = "NBA" /\ GivenPlayers[3].line = 8500
  /\ ~RangeFlagged(1) /\ RangeFlagged(2) /\ ~RangeFlagged(3)
  /\ ~ret.value.isValid

\* C15: validateExtractedData returns isValid = true exactly when its
\* errors list is empty, and returns a corrected copy (a record other than
\* the one given) exactly when the errors list is non-empty.
C15_ValidIffNoErrors ==
  Validated =>
    /\ ret.value.isValid <=> ret.value.errors = <<>>
    /\ ret.value.errors = <<>> => ret.value.correctedData = Undefined
    /\ ret.value.errors # <<>> =>
         /\ ret.value.correctedData \in DOMAIN ret.value.heap.data
         /\ ret.value.correctedData # arg.data

\* A 2-Pick of 5.00 to win 15.00 with two acceptable players: no error,
\* valid, no copy.
C15_Witness ==
  /\ Validated
  /\ GivenData.entryAmount = 500 /\ GivenData.potentialPayout = 1500
  /\ Len(GivenPlayers) = 2
  /\ ret.value.errors = <<>>
  /\ ret.value.isValid
  /\ ret.value.correctedData = Undefined

\* C16: validateExtractedData never mutates the record it is given: after
\* the call the record, its players array and every player object are as
\* they were, and every correction is in an object made by the call.
C16_InputUnchanged ==
  Validated =>
    /\ \A r \in DOMAIN arg.heap.data : ret.value.heap.data[r] = arg.heap.data[r]
    /\ \A r \in DOMAIN arg.heap.arrays : ret.value.heap.arrays[r] = arg.heap.arrays[r]
    /\ \A r \in DOMAIN arg.heap.objects : ret.value.heap.objects[r] = arg.heap.objects[r]

\* The copy returned, with its players read through their references.
CorrectedCopy == ret.value.heap.data[ret.value.correctedData]
CorrectedPlayers ==
  [i \in DOMAIN ret.value.heap.arrays[CorrectedCopy.players] |->
     ret.value.heap.objects[ret.value.heap.arrays[CorrectedCopy.players][i]]]

\* An entry of 0 and a first player "Player 1" of sport Cricket with line
\* 0.05: the copy holds 5.00, "Unknown Player", "Unknown" and 10, the record
\* given still holds what it held.
C16_Witness ==
  /\ Validated
  /\ GivenData.entryAmount = 0
  /\ Len(GivenPlayers) >= 1
  /\ GivenPlayers[1].sport = "Cricket"
  /\ ret.value.correctedData # Undefined
  /\ CorrectedCopy.entryAmount = 500
  /\ CorrectedPlayers[1].sport = "Unknown"
  /\ CorrectedPlayers[1].line = 1000
  /\ Len(CorrectedPlayers[1].name) = 14
  /\ ret.value.heap.data[arg.data].entryAmount = 0
  /\ ret.value.heap.objects[PlayerRef(1)].sport = "Cricket"

\* ---------------------------------------------------------------------
\* Calls of detectUIRegions on canvases of every size up to MaxWidth by
\* MaxHeight, the empty canvas included.
\* ---------------------------------------------------------------------
MaxWidth == 2
MaxHeight == 60

InitRegions ==
  /\ PipelineIdle
  /\ fn = "detectUIRegions"
  /\ arg \in [width : 0..MaxWidth, height : 0..MaxHeight]
  /\ ret = NoValue

ApplyRegions ==
  /\ fn = "detectUIRegions"
  /\ ret = NoValue
  /\ ret' = Value(DetectUIRegions(arg.width, arg.height))
  /\ UNCHANGED <<fn, arg, pvars, uvars>>

SpecRegions == InitRegions /\ [][ApplyRegions]_vars

\* C17: for every width and height, heights 0 and 1 included,
\* detectUIRegions returns one header, one footer and between 2 and 6
\* pick-card regions, the cards all of one height and of the full width.
C17_TwoToSixCards ==
  (fn = "detectUIRegions" /\ ret # NoValue) =>
    /\ ret.kind = "value"
    /\ DOMAIN ret.value = {"header", "playerCards", "footer"}
    /\ Len(ret.value.playerCards) \in 2..6
    /\ \A i, j \in DOMAIN ret.value.playerCards :
         ret.value.playerCards[i].height = ret.value.playerCards[j].height
    /\ \A i \in DOMAIN ret.value.playerCards :
         /\ ret.value.playerCards[i].width = arg.width
         /\ ret.value.playerCards[i].left = 0

\* The regions of the segmenter for invocation p, in screen order.
SegmenterRegions(p) ==
  <<Regions(p).header>> \o Regions(p).playerCards \o <<Regions(p).footer>>

\* C18: when an invocation has resolved, every region of the segmenter (the
\* header, each pick-card and the footer) was recognized exactly once under
\* the profile of its role, the whole image was recognized last under the
\* pick-card profile, and the results are one per region plus one, in pass
\* order.
C18_EveryRegionOnce ==
  \A p \in Invocations :
    outcome[p] = Resolved =>
      LET regs == SegmenterRegions(p)
          n == Len(regs) IN
      /\ Len(results[p]) = n + 1
      /\ \A i \in 1..n :
           /\ results[p][i].region # "full"
           /\ results[p][i].rect = regs[i]
           /\ i = 1 => results[p][i].params = HeaderProfile
           /\ i \in 2..n - 1 => results[p][i].params = CardProfile
      /\ results[p][n + 1].region = "full"
      /\ results[p][n + 1].params = CardProfile

\* ---------------------------------------------------------------------
\* Money arbitration: selectBestMoneyResult.  Confidences in hundredths.
\* ---------------------------------------------------------------------

\* The filter on the entry alone.
IsValidMoneyResultEntryOnly(r) == r.entryAmount > 0

\* The callback of results.filter.
IsValidMoneyResult(r) == r.entryAmount > 0 /\ r.potentialPayout > 0

\* Array.prototype.sort is stable: x goes behind every element the
\* comparator does not put after it.
RECURSIVE InsertByConfidence(_, _)
InsertByConfidence(x, sorted) ==
  IF sorted = <<>> THEN <<x>>
  ELSE IF Head(sorted).confidence - x.confidence < 0
    THEN <<x>> \o sorted
    ELSE <<Head(sorted)>> \o InsertByConfidence(x, Tail(sorted))

\* validResults.sort((a, b) => b.confidence - a.confidence)
RECURSIVE SortByConfidence(_)
SortByConfidence(rs) ==
  IF rs = <<>> THEN <<>>
  ELSE InsertByConfidence(rs[Len(rs)],
                          SortByConfidence(SubSeq(rs, 1, Len(rs) - 1)))

DefaultMoneyResult ==
  [entryAmount |-> 250, potentialPayout |-> 750, confidence |-> 20]

SelectBestMoneyResult(rs) ==
  LET validResults == SelectSeq(rs, IsValidMoneyResult) IN
  IF Len(validResults) = 0 THEN DefaultMoneyResult
  ELSE LET bestResult == SortByConfidence(validResults)[1] IN
       [entryAmount |-> bestResult.entryAmount,
        potentialPayout |-> bestResult.potentialPayout,
        confidence |-> bestResult.confidence]

\* Calls of selectBestMoneyResult on lists of up to MaxCandidates results.
MaxCandidates == 3

SampleMoneyResults ==
  { [entryAmount |-> 500, potentialPayout |-> 1500, confidence |-> 90, strategy |-> "direct"],
    [entryAmount |-> 0, potentialPayout |-> 0, confidence |-> 10, strategy |-> "direct"],
    [entryAmount |-> 1000, potentialPayout |-> 0, confidence |-> 95, strategy |-> "context"],
    [entryAmount |-> 250, potentialPayout |-> 1500, confidence |-> 70, strategy |-> "context"],
    [entryAmount |-> 600, potentialPayout |-> 1200, confidence |-> 70, strategy |-> "position"],
    [entryAmount |-> 840, potentialPayout |-> 6720, confidence |-> 30, strategy |-> "pattern"] }

MoneyResultLists == UNION {[1..n -> SampleMoneyResults] : n \in 0..MaxCandidates}

InitMoney ==
  /\ PipelineIdle
  /\ fn = "selectBestMoneyResult"
  /\ arg \in MoneyResultLists
  /\ ret = NoValue

ApplyMoney ==
  /\ fn = "selectBestMoneyResult"
  /\ ret = NoValue
  /\ ret' = Value(SelectBestMoneyResult(arg))
  /\ UNCHANGED <<fn, arg, pvars, uvars>>

SpecMoney == InitMoney /\ [][ApplyMoney]_vars

\* The positions of arg holding a result with entry > 0 and payout > 0.
Qualifying == {i \in DOMAIN arg : arg[i].entryAmount > 0 /\ arg[i].potentialPayout > 0}

\* C19: selectBestMoneyResult returns the entry and payout of a candidate
\* of the highest confidence among those with entry > 0 and payout > 0, and
\* the default (2.50, 7.50, confidence 0.2) when no candidate qualifies.
C19_BestQualifyingOrDefault ==
  (fn = "selectBestMoneyResult" /\ ret.kind = "value") =>
    IF Qualifying = {}
      THEN ret.value = [entryAmount |-> 250, potentialPayout |-> 750, confidence |-> 20]
      ELSE \E i \in Qualifying :
             /\ \A j \in Qualifying : arg[j].confidence <= arg[i].confidence
             /\ ret.value.entryAmount = arg[i].entryAmount
             /\ ret.value.potentialPayout = arg[i].potentialPayout
             /\ ret.value.confidence = arg[i].confidence

\* The result of the highest confidence has a payout of 0; of the two that
\* qualify the later one has the higher confidence and is returned.
C19_Witness ==
  /\ fn = "selectBestMoneyResult"
  /\ ret.kind = "value"
  /\ Len(arg) = 3
  /\ arg[1].confidence = 95 /\ arg[1].potentialPayout = 0
  /\ arg[2].confidence = 30
  /\ arg[3].confidence = 90
  /\ ret.value = [entryAmount |-> 500, potentialPayout |-> 1500, confidence |-> 90]

\* ---------------------------------------------------------------------
\* The record builder: buildPlayersFromExtractedData.
\* ---------------------------------------------------------------------

\* list[i]?.field || fallback, i 0-based: a missing element and the falsy
\* value of the field's type ("" or 0) give the fallback.
ElementOr(list, i, field, falsy, fallback) ==
  IF i + 1 \in DOMAIN list /\ list[i + 1][field] # falsy
    THEN list[i + 1][field] ELSE fallback

\* Math.max(1, list.length)
CycleLength(list) == Max2(1, Len(list))

BuildPlayer(data, i) ==
  [name |-> ElementOr(data.names, i, "name", <<>>, PlaceholderName(i + 1)),
   sport |-> ElementOr(data.sports, i % CycleLength(data.sports), "sport", "",
                       "Unknown"),
   statType |-> ElementOr(data.statTypes, i % CycleLength(data.statTypes),
                          "statType", "", "Points"),
   line |-> ElementOr(data.lines, i, "line", 0, 1000),
   direction |-> ElementOr(data.directions, i % CycleLength(data.directions),
                           "direction", "", "over"),
   opponent |-> ElementOr(data.opponents, i, "opponent", "", "vs Opponent"),
   matchStatus |-> "Live"]

BuildPlayersFromExtractedData(data) ==
  [i \in 1..data.playerCount |-> BuildPlayer(data, i - 1)]

\* Calls of the builder with candidate lists of up to MaxFieldCandidates
\* entries and up to MaxPlayerCount players.
MaxFieldCandidates == 2
MaxPlayerCount == 3

\* The j-th candidate of each field, by descending confidence.
NameCandidate(j) == [name |-> <<"N", "o", " ">> \o NumToChars(j), confidence |-> 90 - j]
SportCandidate(j) ==
  [sport |-> IF j % 2 = 1 THEN "WNBA" ELSE "MLB", confidence |-> 90 - j]
StatTypeCandidate(j) ==
  [statType |-> IF j % 2 = 1 THEN "Rebounds" ELSE "Hits", confidence |-> 90 - j]
LineCandidate(j) == [line |-> 50 + 400 * j, confidence |-> 90 - j]
DirectionCandidate(j) ==
  [direction |-> IF j % 2 = 1 THEN "under" ELSE "over", confidence |-> 80]
OpponentCandidate(j) ==
  [opponent |-> IF j % 2 = 1 THEN "vs LAS" ELSE "@ NYL", confidence |-> 70]

ExtractedData ==
  { [names |-> [j \in 1..kn |-> NameCandidate(j)],
     sports |-> [j \in 1..ks |-> SportCandidate(j)],
     statTypes |-> [j \in 1..kt |-> StatTypeCandidate(j)],
     lines |-> [j \in 1..kl |-> LineCandidate(j)],
     directions |-> [j \in 1..kd |-> DirectionCandidate(j)],
     opponents |-> [j \in 1..ko |-> OpponentCandidate(j)],
     playerCount |-> n] :
    kn \in 0..MaxFieldCandidates, ks \in 0..MaxFieldCandidates,
    kt \in 0..MaxFieldCandidates, kl \in 0..MaxFieldCandidates,
    kd \in 0..MaxFieldCandidates, ko \in 0..MaxFieldCandidates,
    n \in 0..MaxPlayerCount }

InitBuild ==
  /\ PipelineIdle
  /\ fn = "buildPlayersFromExtractedData"
  /\ arg \in ExtractedData
  /\ ret = NoValue

ApplyBuild ==
  /\ fn = "buildPlayersFromExtractedData"
  /\ ret = NoValue
  /\ ret' = Value(BuildPlayersFromExtractedData(arg))
  /\ UNCHANGED <<fn, arg, pvars, uvars>>

SpecBuild == InitBuild /\ [][ApplyBuild]_vars

\* Player i (0-based) holds, in the given field, candidate i mod k of a
\* list of k >= 1 candidates, and the fallback when the list is empty.
Cycled(list, field, fallback) ==
  \A i \in 0..Len(ret.value) - 1 :
    ret.value[i + 1][field] =
      IF Len(list) >= 1 THEN list[(i % Len(list)) + 1][field] ELSE fallback

\* C20: each of the six per-player fields (name, sport, stat type, line,
\* direction, opponent) with k >= 1 candidates gives player i its candidate
\* i mod k, and a default is used only for an empty candidate list.
C20_FieldsCycle ==
  (fn = "buildPlayersFromExtractedData" /\ ret.kind = "value") =>
    /\ Len(ret.value) = arg.playerCount
    /\ Cycled(arg.sports, "sport", "Unknown")
    /\ Cycled(arg.statTypes, "statType", "Points")
    /\ Cycled(arg.directions, "direction", "over")
    /\ Cycled(arg.lines, "line", 1000)
    /\ Cycled(arg.opponents, "opponent", "vs Opponent")
    /\ \A i \in 0..Len(ret.value) - 1 :
         ret.value[i + 1].name =
           IF Len(arg.names) >= 1
             THEN arg.names[(i % Len(arg.names)) + 1].name
             ELSE PlaceholderName(i + 1)

\* ---------------------------------------------------------------------
\* Candidate extraction for the record builder: extractPlayerNamesAdvanced
\* and extractBettingLinesAdvanced.  Confidences in thousandths, rounded
\* down from the sums the code forms (0.5 + 0.2 + 0.2 is just below 0.9).
\* ---------------------------------------------------------------------

NoMatch == [end |-> 0, name |-> <<>>]

\* The end of [A-Z][a-z]{2,} matched greedily at i, 0 without a match.
CapWordEnd(t, i) ==
  IF i >= 1 /\ i <= Len(t) /\ t[i] \in Upper /\ RunEnd(t, Lower, i + 1) >= i + 3
    THEN RunEnd(t, Lower, i + 1) ELSE 0

\* The end of \s+ matched at e, 0 without a match (or when e is 0).
AfterSpaces(t, e) ==
  IF e >= 1 /\ RunEnd(t, Spaces, e) > e THEN RunEnd(t, Spaces, e) ELSE 0

\* The alternatives of (Jr\.?|Sr\.?|III?|IV) in the order they are tried.
NameSuffixes ==
  << <<"J", "r", ".">>, <<"J", "r">>, <<"S", "r", ".">>, <<"S", "r">>, <<"I", "I", "I">>, <<"I", "I">>, <<"I", "V">> >>

\* The end of the suffix group followed by \b at s, 0 without a match.
SuffixEnd(t, s) ==
  LET ok == {k \in DOMAIN NameSuffixes :
               s >= 1 /\ At(t, NameSuffixes[k], s)
               /\ (t[s + Len(NameSuffixes[k]) - 1] \in WordChars)
                    # (s + Len(NameSuffixes[k]) <= Len(t)
                       /\ t[s + Len(NameSuffixes[k])] \in WordChars)} IN
  IF ok = {} THEN 0
  ELSE s + Len(NameSuffixes[CHOOSE k \in ok : \A j \in ok : k <= j])

\* `${a} ${b}` of two stretches of the text.
FullName(t, i1, e1, i2, e2) ==
  SubSeq(t, i1, e1 - 1) \o <<" ">> \o SubSeq(t, i2, e2 - 1)

\* A match ending at e (0: none) whose name is built from the words given.
NameMatch(t, i, e, name) ==
  IF e > 0 /\ BoundaryBefore(t, i) /\ BoundaryAfter(t, e)
    THEN [end |-> e, name |-> name] ELSE NoMatch

\* /\b([A-Z][a-z]{2,})\s+([A-Z][a-z]{2,})\b/ at i.
StandardPatternAt(t, i) ==
  LET e1 == CapWordEnd(t, i)
      s2 == AfterSpaces(t, e1)
      e2 == CapWordEnd(t, s2) IN
  NameMatch(t, i, e2, FullName(t, i, e1, s2, e2))

\* /\b([A-Z][a-z]{2,})\s+([A-Z]\.)\s+([A-Z][a-z]{2,})\b/ at i.
MiddleInitialPatternAt(t, i) ==
  LET e1 == CapWordEnd(t, i)
      s2 == AfterSpaces(t, e1)
      s3 == IF s2 >= 1 /\ s2 + 1 <= Len(t) /\ t[s2] \in Upper /\ t[s2 + 1] = "."
              THEN AfterSpaces(t, s2 + 2) ELSE 0
      e3 == CapWordEnd(t, s3) IN
  NameMatch(t, i, e3, FullName(t, i, e1, s3, e3))

\* /\b([A-Z][a-z]{2,})\s+([A-Z][a-z]{2,})\s+([A-Z][a-z]{2,})\b/ at i.
ThreePartPatternAt(t, i) ==
  LET e1 == CapWordEnd(t, i)
      s3 == AfterSpaces(t, CapWordEnd(t, AfterSpaces(t, e1)))
      e3 == CapWordEnd(t, s3) IN
  NameMatch(t, i, e3, FullName(t, i, e1, s3, e3))

\* /\b([A-Z][a-z]{2,})\s+([A-Z][a-z]{2,})\s+(Jr\.?|Sr\.?|III?|IV)\b/ at i.
SuffixPatternAt(t, i) ==
  LET e1 == CapWordEnd(t, i)
      s2 == AfterSpaces(t, e1)
      e2 == CapWordEnd(t, s2)
      s3 == AfterSpaces(t, e2)
      e3 == SuffixEnd(t, s3) IN
  IF e3 > 0 /\ BoundaryBefore(t, i)
    THEN [end |-> e3,
          name |-> FullName(t, i, e1, s2, e2) \o <<" ">> \o SubSeq(t, s3, e3 - 1)]
    ELSE NoMatch

NamePatternAt(t, k, i) ==
  CASE k = 1 -> StandardPatternAt(t, i)
    [] k = 2 -> MiddleInitialPatternAt(t, i)
    [] k = 3 -> ThreePartPatternAt(t, i)
    [] k = 4 -> SuffixPatternAt(t, i)

NamePatternConfidence == <<800, 900, 700, 900>>

\* The push of one match: only a name isValidPlayerName accepts is kept.
NameCandidates(m, k) ==
  IF IsValidPlayerName(m.name)
    THEN <<[name |-> m.name, confidence |-> NamePatternConfidence[k]]>>
    ELSE <<>>

\* The exec loop of pattern k from position i on.
RECURSIVE NameMatches(_, _, _)
NameMatches(t, k, i) ==
  IF i > Len(t) THEN <<>>
  ELSE IF NamePatternAt(t, k, i).end = 0 THEN NameMatches(t, k, i + 1)
  ELSE NameCandidates(NamePatternAt(t, k, i), k)
       \o NameMatches(t, k, NamePatternAt(t, k, i).end)

\* names.filter((item, index, arr) => arr.findIndex(same) === index)
FirstOccurrences(items, field) ==
  SelectSeq([i \in DOMAIN items |->
               [item |-> items[i],
                first |-> \A j \in 1..i - 1 : items[j][field] # items[i][field]]],
            LAMBDA x : x.first)

Items(marked) == [i \in DOMAIN marked |-> marked[i].item]

ExtractPlayerNamesAdvanced(t) ==
  SortByConfidence(Items(FirstOccurrences(
    NameMatches(t, 1, 1) \o NameMatches(t, 2, 1) \o NameMatches(t, 3, 1)
      \o NameMatches(t, 4, 1),
    "name")))

\* The confidence of a line of num hundredths, written with a decimal point
\* or not: 0.5, + 0.2 for a multiple of 0.5, + 0.2 within [5, 50], + 0.1
\* for the point, at most 0.9.
LineConfidence(num, dot) ==
  LET half == num % 50 = 0
      common == num >= 500 /\ num <= 5000 IN
  CASE half /\ common /\ dot -> 900
    [] half /\ common /\ ~dot -> 899
    [] (half # common) /\ dot -> 799
    [] (half # common) /\ ~dot -> 700
    [] ~half /\ ~common /\ dot -> 600
    [] ~half /\ ~common /\ ~dot -> 500

\* The push of the match of /\b(\d+(?:\.\d+)?)\b/ over t[i..e-1].
LineCandidates(t, i, e) ==
  IF ParseFloat(t, i, e) >= 50 /\ ParseFloat(t, i, e) <= 10000
    THEN <<[line |-> ParseFloat(t, i, e),
            confidence |-> LineConfidence(ParseFloat(t, i, e),
                                          RunEnd(t, Digits, i) < e)]>>
    ELSE <<>>

\* The exec loop of linePattern from position i on.
RECURSIVE LineMatches(_, _)
LineMatches(t, i) ==
  IF i > Len(t) THEN <<>>
  ELSE IF t[i] \in Digits /\ BoundaryBefore(t, i)
    THEN IF BoundaryAfter(t, NumberEnd(t, i))
           THEN LineCandidates(t, i, NumberEnd(t, i))
                \o LineMatches(t, NumberEnd(t, i))
         ELSE IF BoundaryAfter(t, RunEnd(t, Digits, i))
           THEN LineCandidates(t, i, RunEnd(t, Digits, i))
                \o LineMatches(t, RunEnd(t, Digits, i))
         ELSE LineMatches(t, i + 1)
  ELSE LineMatches(t, i + 1)

ExtractBettingLinesAdvanced(t) ==
  SortByConfidence(Items(FirstOccurrences(LineMatches(t, 1), "line")))

\* The name and the line buildPlayersFromExtractedData gives player i.
NameAndLine(names, lines, i) ==
  [name |-> ElementOr(names, i, "name", <<>>, PlaceholderName(i + 1)),
   line |-> ElementOr(lines, i, "line", 0, 1000)]

\* parseActualPlayersFromOCR, the name and line of each player.
ParseActualPlayersFromOCR(t, playerCount) ==
  [i \in 1..playerCount |->
     NameAndLine(ExtractPlayerNamesAdvanced(t), ExtractBettingLinesAdvanced(t), i - 1)]

\* Calls on the text of up to MaxCards pick-cards, one name and one line
\* to a card, a card to a row.
MaxCards == 2

CardNames ==
  { [chars |-> <<"A", "n", "n", " ", "L", "e", "e">>, name |-> <<"A", "n", "n", " ", "L", "e", "e">>],
    [chars |-> <<"B", "o", "b", " ", "R", "a", "y">>, name |-> <<"B", "o", "b", " ", "R", "a", "y">>],
    [chars |-> <<"C", "a", "l", " ", "M", ".", " ", "P", "o", "e">>, name |-> <<"C", "a", "l", " ", "P", "o", "e">>] }

CardLines ==
  { [chars |-> <<"3">>, line |-> 300], [chars |-> <<"2", "2", ".", "5">>, line |-> 2250],
    [chars |-> <<"7", ".", "5">>, line |-> 750], [chars |-> <<"1", "8">>, line |-> 1800] }

CardLists == UNION {[1..n -> CardNames \X CardLines] : n \in 0..MaxCards}

RECURSIVE CardsText(_)
CardsText(l) ==
  IF l = <<>> THEN <<>>
  ELSE l[1][1].chars \o <<" ">> \o l[1][2].chars \o <<"\n">> \o CardsText(Tail(l))

InitPlayers ==
  /\ PipelineIdle
  /\ fn = "parseActualPlayersFromOCR"
  /\ \E l \in CardLists, n \in 1..MaxCards :
       arg = [cards |-> l, text |-> CardsText(l), playerCount |-> n]
  /\ ret = NoValue

ApplyPlayers ==
  /\ fn = "parseActualPlayersFromOCR"
  /\ ret = NoValue
  /\ ret' = Value(ParseActualPlayersFromOCR(arg.text, arg.playerCount))
  /\ UNCHANGED <<fn, arg, pvars, uvars>>

SpecPlayers == InitPlayers /\ [][ApplyPlayers]_vars

\* The distinct values of a field of the cards, in the order of the text.
RECURSIVE InTextOrder(_, _, _)
InTextOrder(l, part, field) ==
  IF l = <<>> THEN <<>>
  ELSE LET rest == InTextOrder(SubSeq(l, 1, Len(l) - 1), part, field)
           v == l[Len(l)][part][field] IN
       IF \E j \in DOMAIN rest : rest[j] = v THEN rest ELSE rest \o <<v>>

\* C21: player i's name and line are the i-th distinct name and the i-th
\* distinct line in the order of the recognized text; confidence does not
\* reorder them.
C21_TextOrderKept ==
  (fn = "parseActualPlayersFromOCR" /\ ret.kind = "value") =>
    \A i \in DOMAIN ret.value :
      /\ i <= Len(InTextOrder(arg.cards, 1, "name")) =>
           ret.value[i].name = InTextOrder(arg.cards, 1, "name")[i]
      /\ i <= Len(InTextOrder(arg.cards, 2, "line")) =>
           ret.value[i].line = InTextOrder(arg.cards, 2, "line")[i]

\* ---------------------------------------------------------------------
\* Calls of validateExtractedData on records of two acceptable players and
\* a range of entry amounts and payouts, for the checks on the money fields.
\* ---------------------------------------------------------------------
MoneyLineupTypes ==
  { <<"2", "-", "P", "i", "c", "k">>, <<"6", "-", "P", "i", "c", "k">>, <<"2", "-", "P", "i", "c", "k", " ", "P", "o", "w", "e", "r", " ", "P", "l", "a", "y">>, <<"6", "-", "P", "i", "c", "k", " ", "F", "l", "e", "x", " ", "P", "l", "a", "y">> }

MoneyEntryAmounts == {0, 50, 100, 500, 1000, 150000}
MoneyPayouts == {0, 60, 500, 1000, 1500, 12500, 50000, 50001, 100000}

TwoAcceptablePlayers ==
  << [name |-> <<"A", "n", "n", " ", "L", "e", "e">>, sport |-> "WNBA", statType |-> "Points", line |-> 2250],
     [name |-> <<"C", "y", " ", "F", "o", "x">>, sport |-> "NBA", statType |-> "Points", line |-> 8500] >>

InitAmounts ==
  /\ PipelineIdle
  /\ fn = "validateExtractedData"
  /\ \E t \in MoneyLineupTypes, e \in MoneyEntryAmounts, p \in MoneyPayouts :
       arg = [heap |-> InputHeap(t, e, p, TwoAcceptablePlayers), data |-> DataRef]
  /\ ret = NoValue

SpecAmounts == InitAmounts /\ [][ApplyValidate]_vars

\* The report holds an error of the given wording.
HasError(msgs) ==
  \E k \in DOMAIN ret.value.errors : ret.value.errors[k].msg \in msgs

PayoutErrors == {"payout not positive", "payout below entry", "payout too high"}

\* C22: the payout check accepts a record exactly when entryAmount <
\* potentialPayout <= 100 x entryAmount; otherwise an error is reported and
\* the corrected copy's payout is entryAmount x 2, or entryAmount x 10 when
\* the payout exceeded 100 x entryAmount.  A payout equal to the entry is
\* flagged.
C22_PayoutCheck ==
  Validated =>
    LET e == GivenData.entryAmount
        p == GivenData.potentialPayout IN
    IF e < p /\ p <= 100 * e
      THEN ~HasError(PayoutErrors)
      ELSE /\ HasError(PayoutErrors)
           /\ ret.value.correctedData # Undefined
           /\ CorrectedCopy.potentialPayout = IF p > 100 * e THEN e * 10 ELSE e * 2

\* The multiplier band, in tenths, of a pick count.
PickCountBand(n) ==
  CASE n = 2 -> [min |-> 15, max |-> 100]
    [] n = 3 -> [min |-> 20, max |-> 150]
    [] n = 4 -> [min |-> 15, max |-> 200]
    [] n \in {5, 6} -> [min |-> 50, max |-> 500]

RatioErrorCount ==
  Cardinality({k \in DOMAIN ret.value.errors : ret.value.errors[k].msg = "ratio unusual"})

\* C23: the ratio check uses the band of the pick count encoded in the
\* record's type: with a positive entry, a ratio inside the band gets no
\* ratio error and a ratio outside it gets exactly one ('6-Pick Flex Play':
\* the band is 5 to 50).
C23_RatioBandOfPickCount ==
  (Validated /\ GivenData.entryAmount > 0
     /\ TypeNumeral.kind = "number" /\ TypeNumeral.n \in 2..6) =>
    LET band == PickCountBand(TypeNumeral.n)
        e == GivenData.entryAmount
        p == GivenData.potentialPayout IN
    RatioErrorCount =
      IF band.min * e <= 10 * p /\ 10 * p <= band.max * e THEN 0 ELSE 1

\* The entry and the payout the validator's own checks accept for a type.
PassesOwnChecks(type, entry, payout) ==
  /\ ValidateEntryAmount(entry, type).isValid
  /\ ValidatePotentialPayout(payout, entry, type).isValid

\* C29: whenever a corrected copy is returned, its entry amount is positive
\* and inside the range of its pick-count class and its payout is at least
\* its entry and at most 100 times its entry.
C29_CorrectedMoneyPasses ==
  (Validated /\ ret.value.correctedData # Undefined) =>
    /\ CorrectedCopy.entryAmount > 0
    /\ CorrectedCopy.potentialPayout >= CorrectedCopy.entryAmount
    /\ CorrectedCopy.potentialPayout <= 100 * CorrectedCopy.entryAmount
    /\ PassesOwnChecks(CorrectedCopy.lineupType, CorrectedCopy.entryAmount,
                       CorrectedCopy.potentialPayout)

\* C24: whenever the report is valid, the record has entryAmount > 0 and
\* potentialPayout >= entryAmount, as many players as the pick count its
\* type encodes, names that pass the name-shape predicate and lines inside
\* the range of their {sport, statType} pair when there is one.
C24_ValidMeansInvariants ==
  (Validated /\ ret.value.isValid) =>
    /\ GivenData.entryAmount > 0
    /\ GivenData.potentialPayout >= GivenData.entryAmount
    /\ TypeNumeral.kind = "number" => Len(GivenPlayers) = TypeNumeral.n
    /\ \A i \in DOMAIN GivenPlayers :
         /\ IsValidPlayerName(GivenPlayers[i].name)
         /\ \A r \in SportRanges :
              (r.sport = GivenPlayers[i].sport /\ r.statType = GivenPlayers[i].statType)
                => (r.min <= GivenPlayers[i].line /\ GivenPlayers[i].line <= r.max)

(***************************************************************************)
(* C25: under any interleaving of concurrent processImage calls on one     *)
(* processor at most one engine worker is created: createWorker has        *)
(* returned at most once, every invocation that holds a worker holds the   *)
(* one the field references, and no created worker is unreferenced.        *)
(***************************************************************************)
C25_OneWorker ==
  /\ nWorkers <= 1
  /\ \A p \in Invocations : lw[p] # 0 => lw[p] = worker
  /\ \A w \in 1..nWorkers : w = worker

\* ---------------------------------------------------------------------
\* extractMoneyAmountsRobust: the contextual, numeric and lineup
\* strategies next to extractDirectDollarPatterns, and the arbitration
\* over the four.  Amounts in hundredths, confidences in hundredths.
\* ---------------------------------------------------------------------

\* The end of (\d+\.?\d{0,2}) matched greedily at c; c when no digit is there.
AmountEnd(t, c) ==
  LET j == RunEnd(t, Digits, c)
      d == IF j <= Len(t) /\ t[j] = "." THEN j + 1 ELSE j IN
  IF j = c THEN c ELSE Min2(RunEnd(t, Digits, d), d + 2)

NoAmount == [from |-> 0, to |-> 0]

\* label[:\s]*\$?(\d+\.?\d{0,2}) matched at i, case-insensitively: the
\* group's span.
LabelledAmountAt(t, label, i) ==
  LET c0 == RunEnd(t, Spaces \cup {":"}, i + Len(label))
      c == IF c0 <= Len(t) /\ t[c0] = "$" THEN c0 + 1 ELSE c0 IN
  IF At(ToLowerCase(t), label, i) /\ AmountEnd(t, c) > c
    THEN [from |-> c, to |-> AmountEnd(t, c)]
    ELSE NoAmount

\* The places where .*? may stop after position e: no line break between,
\* and the second label with its amount follows.
SecondLabelPlaces(t, label, e) ==
  {j \in e..Len(t) : /\ \A x \in e..(j - 1) : t[x] # "\n"
                     /\ LabelledAmountAt(t, label, j).to # 0}

NoPair == [amount1 |-> -1, amount2 |-> -1]

AmountOf(t, m) == ParseFloat(t, m.from, m.to)

\* first[:\s]*\$?(amount).*?second[:\s]*\$?(amount) matched at i.
LabelPairAt(t, first, second, i) ==
  LET m1 == LabelledAmountAt(t, first, i) IN
  IF m1.to = 0 \/ SecondLabelPlaces(t, second, m1.to) = {} THEN NoPair
  ELSE LET j == CHOOSE x \in SecondLabelPlaces(t, second, m1.to) :
                  \A y \in SecondLabelPlaces(t, second, m1.to) : x <= y IN
       [amount1 |-> AmountOf(t, m1),
        amount2 |-> AmountOf(t, LabelledAmountAt(t, second, j))]

\* \s+word matched at s: the position after word, 0 when it does not match.
SpacedWordEnd(t, word, s) ==
  LET w == RunEnd(t, Spaces, s) IN
  IF s >= 1 /\ w > s /\ At(ToLowerCase(t), word, w) THEN w + Len(word) ELSE 0

\* \$(amount)\s+to\s+pay\s+\$(amount) matched at i.
ToPayAt(t, i) ==
  LET e1 == AmountEnd(t, i + 1)
      p == SpacedWordEnd(t, <<"p", "a", "y">>,
                         SpacedWordEnd(t, <<"t", "o">>, e1))
      s == SpacedWordEnd(t, <<"$">>, p) IN
  IF t[i] = "$" /\ e1 > i + 1 /\ s # 0 /\ AmountEnd(t, s) > s
    THEN [amount1 |-> ParseFloat(t, i + 1, e1),
          amount2 |-> ParseFloat(t, s, AmountEnd(t, s))]
    ELSE NoPair

\* contextPatterns[k] matched at i.
ContextPatternAt(t, k, i) ==
  IF k = 1 THEN LabelPairAt(t, <<"e", "n", "t", "r", "y">>, <<"p", "a", "y", "o", "u", "t">>, i)
  ELSE IF k = 2 THEN ToPayAt(t, i)
  ELSE IF k = 3 THEN LabelPairAt(t, <<"b", "e", "t">>, <<"w", "i", "n">>, i)
  ELSE LabelPairAt(t, <<"s", "t", "a", "k", "e">>, <<"r", "e", "t", "u", "r", "n">>, i)

\* pattern.exec(text): the leftmost match of contextPatterns[k].
ContextPatternExec(t, k) ==
  IF \E i \in 1..Len(t) : ContextPatternAt(t, k, i) # NoPair
    THEN ContextPatternAt(t, k,
           CHOOSE i \in 1..Len(t) :
             /\ ContextPatternAt(t, k, i) # NoPair
             /\ \A j \in 1..(i - 1) : ContextPatternAt(t, k, j) = NoPair)
    ELSE NoPair

\* The result built from a match, amounts as they were read.
ContextualResultAsRead(m) ==
  [entryAmount |-> m.amount1, potentialPayout |-> m.amount2, confidence |-> 80]

\* The result built from a match: the smaller amount is the entry.
ContextualResult(m) ==
  [entryAmount |-> Min2(m.amount1, m.amount2),
   potentialPayout |-> Max2(m.amount1, m.amount2),
   confidence |-> 80]

NoMoneyResult == [entryAmount |-> 0, potentialPayout |-> 0, confidence |-> 10]

\* The loop over contextPatterns from pattern k on.
RECURSIVE ContextualFrom(_, _)
ContextualFrom(t, k) ==
  IF k > 4 THEN NoMoneyResult
  ELSE IF ContextPatternExec(t, k) # NoPair
          /\ ContextPatternExec(t, k).amount1 > 0
          /\ ContextPatternExec(t, k).amount2 > 0
    THEN ContextualResult(ContextPatternExec(t, k))
    ELSE ContextualFrom(t, k + 1)

ExtractContextualAmounts(t) == ContextualFrom(t, 1)

\* /\b(\d{1,3}\.\d{2})\b/ matched at i: the position after it, 0 without
\* a match.
DecimalNumberEnd(t, i) ==
  LET j == RunEnd(t, Digits, i) IN
  IF /\ BoundaryBefore(t, i)
     /\ j - i \in 1..3
     /\ j + 2 <= Len(t)
     /\ t[j] = "."
     /\ t[j + 1] \in Digits
     /\ t[j + 2] \in Digits
     /\ BoundaryAfter(t, j + 3)
    THEN j + 3 ELSE 0

\* /\b(\d{1,4})\b/ matched at i: the position after it, 0 without a match.
IntegerNumberEnd(t, i) ==
  LET j == RunEnd(t, Digits, i) IN
  IF BoundaryBefore(t, i) /\ j - i \in 1..4 /\ BoundaryAfter(t, j)
    THEN j ELSE 0

\* The amount of a match of numberPatterns[k] after the error correction:
\* a whole number of 100 to 9999 is read as cents.
CorrectedAmount(t, k, i, e) ==
  IF k = 1 THEN ParseFloat(t, i, e)
  ELSE IF ParseInt(t, i, e) >= 100 /\ ParseInt(t, i, e) <= 9999
    THEN ParseInt(t, i, e)
    ELSE 100 * ParseInt(t, i, e)

\* The amount pushed for a match: kept when 0.1 <= amount <= 10000.
NumericMatchAmount(t, k, i, e) ==
  IF CorrectedAmount(t, k, i, e) >= 10 /\ CorrectedAmount(t, k, i, e) <= 1000000
    THEN <<CorrectedAmount(t, k, i, e)>> ELSE <<>>

NumberPatternEnd(t, k, i) ==
  IF k = 1 THEN DecimalNumberEnd(t, i) ELSE IntegerNumberEnd(t, i)

\* The while loop over pattern.exec(text) for numberPatterns[k], from
\* position i: the amounts pushed, in order.
RECURSIVE NumberPatternAmounts(_, _, _)
NumberPatternAmounts(t, k, i) ==
  IF i > Len(t) THEN <<>>
  ELSE IF NumberPatternEnd(t, k, i) = 0 THEN NumberPatternAmounts(t, k, i + 1)
  ELSE NumericMatchAmount(t, k, i, NumberPatternEnd(t, k, i))
       \o NumberPatternAmounts(t, k, NumberPatternEnd(t, k, i))

\* The result extractNumericPatternsWithCorrection builds from allNumbers.
NumericResult(allNumbers) ==
  IF Len(UniqueSorted(allNumbers)) >= 2
    THEN [entryAmount |-> UniqueSorted(allNumbers)[1],
          potentialPayout |-> UniqueSorted(allNumbers)[Len(UniqueSorted(allNumbers))],
          confidence |-> 60]
    ELSE NoMoneyResult

ExtractNumericPatternsWithCorrection(t) ==
  NumericResult(NumberPatternAmounts(t, 1, 1) \o NumberPatternAmounts(t, 2, 1))

\* lineupPatterns of extractLineupSpecificAmounts, in hundredths.
KnownLineupPatterns ==
  << [key |-> <<"2", "-", "P", "i", "c", "k">>,
      patterns |-> << [entry |-> 250, payout |-> 750],
                      [entry |-> 500, payout |-> 1500],
                      [entry |-> 500, payout |-> 1750],
                      [entry |-> 500, payout |-> 2000],
                      [entry |-> 840, payout |-> 6720] >>],
     [key |-> <<"3", "-", "P", "i", "c", "k">>,
      patterns |-> << [entry |-> 250, payout |-> 1500],
                      [entry |-> 500, payout |-> 3000],
                      [entry |-> 1000, payout |-> 3000],
                      [entry |-> 1500, payout |-> 3000] >>],
     [key |-> <<"4", "-", "P", "i", "c", "k">>,
      patterns |-> << [entry |-> 500, payout |-> 3500],
                      [entry |-> 600, payout |-> 975],
                      [entry |-> 1000, payout |-> 10000] >>],
     [key |-> <<"5", "-", "P", "i", "c", "k">>,
      patterns |-> << [entry |-> 1000, payout |-> 20000] >>],
     [key |-> <<"6", "-", "P", "i", "c", "k">>,
      patterns |-> << [entry |-> 400, payout |-> 2500],
                      [entry |-> 500, payout |-> 12500],
                      [entry |-> 500, payout |-> 13000],
                      [entry |-> 600, payout |-> 15750],
                      [entry |-> 1000, payout |-> 10000],
                      [entry |-> 1000, payout |-> 23125] >>] >>

\* text.match(/\d+\.?\d*/g).map(parseFloat), from position i.
RECURSIVE TextNumbers(_, _)
TextNumbers(t, i) ==
  IF i > Len(t) THEN <<>>
  ELSE IF t[i] \notin Digits THEN TextNumbers(t, i + 1)
  ELSE LET j == RunEnd(t, Digits, i)
           e == RunEnd(t, Digits, IF j <= Len(t) /\ t[j] = "." THEN j + 1 ELSE j) IN
       <<ParseFloat(t, i, e)>> \o TextNumbers(t, e)

Abs(x) == IF x < 0 THEN -x ELSE x

\* numbers.some(n => |n - v| < 0.1 || |n - v * 100| < 1)
AppearsIn(numbers, v) ==
  \E x \in DOMAIN numbers :
    Abs(numbers[x] - v) < 10 \/ Abs(numbers[x] - v * 100) < 100

\* The loop over the patterns of the lineup type from pattern k on, then
\* the fallback to the first pattern.
RECURSIVE LineupResultFrom(_, _, _)
LineupResultFrom(patterns, numbers, k) ==
  IF k > Len(patterns)
    THEN [entryAmount |-> patterns[1].entry,
          potentialPayout |-> patterns[1].payout, confidence |-> 30]
  ELSE IF AppearsIn(numbers, patterns[k].entry)
          /\ AppearsIn(numbers, patterns[k].payout)
    THEN [entryAmount |-> patterns[k].entry,
          potentialPayout |-> patterns[k].payout, confidence |-> 70]
  ELSE LineupResultFrom(patterns, numbers, k + 1)

ExtractLineupSpecificAmounts(t, lineupType) ==
  LineupResultFrom(ByLineupType(KnownLineupPatterns, lineupType).patterns,
                   TextNumbers(t, 1), 1)

WithStrategy(r, strategy) ==
  [entryAmount |-> r.entryAmount, potentialPayout |-> r.potentialPayout,
   confidence |-> r.confidence, strategy |-> strategy]

ExtractMoneyAmountsRobust(t, lineupType) ==
  SelectBestMoneyResult(
    << WithStrategy(ExtractDirectDollarPatterns(t), "direct"),
       WithStrategy(ExtractContextualAmounts(t), "contextual"),
       WithStrategy(ExtractNumericPatternsWithCorrection(t), "numeric"),
       WithStrategy(ExtractLineupSpecificAmounts(t, lineupType), "lineup") >>)

\* Calls of extractMoneyAmountsRobust on texts of up to MaxMoneyTokens
\* fragments of a slip, separated by spaces, for two listed lineup types
\* and one that lineupPatterns does not list.  Amounts are printed with at
\* most two decimals.
MaxMoneyTokens == 3

MoneyTokens ==
  { <<"$", "5">>, <<"$", "1", "5", ".", "0", "0">>, <<"E", "n", "t", "r", "y", " ", "2", "5">>, <<"p", "a", "y", "o", "u", "t", ":", " ", "5">>, <<"2", "5", "0">>, <<"7", "5", "0">>,
    <<"e", "n", "t", "r", "y", " ", "0">>, <<"$", "3", " ", "t", "o", " ", "p", "a", "y", " ", "$", "9">>, <<"\n">> }

RobustLineupTypes == { <<"2", "-", "P", "i", "c", "k">>, <<"3", "-", "P", "i", "c", "k">>, <<"9", "-", "P", "i", "c", "k">> }

MoneyTokenLists == UNION {[1..n -> MoneyTokens] : n \in 0..MaxMoneyTokens}

RECURSIVE TokensText(_)
TokensText(l) ==
  IF l = <<>> THEN <<>> ELSE Join(l[1], <<" ">>, TokensText(Tail(l)))

InitRobust ==
  /\ PipelineIdle
  /\ fn = "extractMoneyAmountsRobust"
  /\ arg \in {[text |-> TokensText(l), lineupType |-> y] :
                l \in MoneyTokenLists, y \in RobustLineupTypes}
  /\ ret = NoValue

ApplyRobust ==
  /\ fn = "extractMoneyAmountsRobust"
  /\ ret = NoValue
  /\ ret' = Value(ExtractMoneyAmountsRobust(arg.text, arg.lineupType))
  /\ UNCHANGED <<fn, arg, pvars, uvars>>

SpecRobust == InitRobust /\ [][ApplyRobust]_vars

RobustReturned == fn = "extractMoneyAmountsRobust" /\ ret # NoValue

(***************************************************************************)
(* C26: for every text and lineup type extractMoneyAmountsRobust returns   *)
(* an entry above 0, a payout of at least the entry and a confidence of at *)
(* least 0.3; the lineup strategy's result always passes the arbitration's *)
(* filter, so the default (2.50, 7.50, 0.2) is never what is returned.     *)
(***************************************************************************)
C26_RobustMoneyPositive ==
  RobustReturned =>
    /\ ret.value.entryAmount > 0
    /\ ret.value.potentialPayout >= ret.value.entryAmount
    /\ ret.value.confidence >= 30
    /\ ret.value # DefaultMoneyResult
    /\ IsValidMoneyResult(ExtractLineupSpecificAmounts(arg.text, arg.lineupType))

\* The three strategies that read amounts found none and the fallback pair
\* of the lineup type was returned; and a labelled pair printed payout
\* first was returned with the smaller amount as the entry.
C26_Witness ==
  /\ RobustReturned
  /\ ret.value.confidence = 30
  /\ ExtractDirectDollarPatterns(arg.text) = NoMoneyResult
  /\ ExtractContextualAmounts(arg.text) = NoMoneyResult
  /\ ExtractNumericPatternsWithCorrection(arg.text) = NoMoneyResult

\* ---------------------------------------------------------------------
\* The layout of the regions, and the passes runMultiPassOCR makes over
\* them: the header, each pick-card, then the whole image.
\* ---------------------------------------------------------------------
RegionsReturned == fn = "detectUIRegions" /\ ret # NoValue

Bottom(rect) == rect.top + rect.height

InsideBuffer(rect, width, height) ==
  /\ rect.left >= 0
  /\ rect.top >= 0
  /\ rect.width >= 0
  /\ rect.height >= 0
  /\ rect.left + rect.width <= width
  /\ Bottom(rect) <= height

\* Two rectangles share a pixel.
Overlap(r1, r2) ==
  /\ r1.left < r2.left + r2.width
  /\ r2.left < r1.left + r1.width
  /\ r1.top < Bottom(r2)
  /\ r2.top < Bottom(r1)

ReturnedRegions ==
  <<ret.value.header>> \o ret.value.playerCards \o <<ret.value.footer>>

(***************************************************************************)
(* C27: for every positive width and height the regions detectUIRegions    *)
(* returns lie inside the buffer and no two of them overlap; the first     *)
(* pick-card starts where the header ends, each further pick-card starts   *)
(* where the one before ends, and the last pick-card ends at or above the  *)
(* top of the footer.                                                      *)
(***************************************************************************)
C27_RegionsTile ==
  (RegionsReturned /\ arg.width > 0 /\ arg.height > 0) =>
    LET cards == ret.value.playerCards IN
    /\ \A i \in DOMAIN ReturnedRegions :
         InsideBuffer(ReturnedRegions[i], arg.width, arg.height)
    /\ \A i, j \in DOMAIN ReturnedRegions :
         i # j => ~ Overlap(ReturnedRegions[i], ReturnedRegions[j])
    /\ Len(cards) >= 1
    /\ cards[1].top = Bottom(ret.value.header)
    /\ \A i \in 1..(Len(cards) - 1) : cards[i + 1].top = Bottom(cards[i])
    /\ Bottom(cards[Len(cards)]) <= ret.value.footer.top

\* A canvas whose header, cards and footer all have pixels, and whose
\* player area is not a multiple of the card count: rows are left between
\* the last card and the footer.
C27_Witness ==
  /\ RegionsReturned
  /\ arg.width > 0
  /\ ret.value.header.height > 0
  /\ ret.value.footer.height > 0
  /\ ret.value.playerCards[1].height > 0
  /\ Bottom(ret.value.playerCards[Len(ret.value.playerCards)])
       < ret.value.footer.top

\* results.push once for the header, once per pick-card, once for the
\* whole image.
RecognitionPasses(regions) == 1 + Len(regions.playerCards) + 1

STORAGE_VERSION == "1.0"

CorruptItem == [kind |-> "text"]

\* bets.map(bet => ({...bet, updatedAt: now}))
Restamped(list, now) ==
  [i \in DOMAIN list |-> [list[i] EXCEPT !.updatedAt = now]]

\* The item saveBets writes; JSON.stringify and JSON.parse keep the
\* strings and finite numbers of a bet as they are.
StorageData(list, now) ==
  [kind |-> "json", version |-> STORAGE_VERSION, timestamp |-> now,
   bets |-> Restamped(list, now)]

\* localStorage after saveBets(list): setItem may throw (quota, storage
\* disabled), which saveBets catches and logs.
SaveBets(item, list, now, setItemOk) ==
  IF setItemOk THEN StorageData(list, now) ELSE item

\* Data of another version: nothing is migrated.
MigrateBets(oldData) == <<>>

LoadBets(item) ==
  IF item = Null THEN <<>>
  ELSE IF item = CorruptItem THEN <<>>
  ELSE IF item.version # STORAGE_VERSION THEN MigrateBets(item)
  ELSE IF "bets" \notin DOMAIN item THEN <<>>
  ELSE item.bets

\* {...bet, createdAt: now, updatedAt: now}
Stamped(bet, now) ==
  [id |-> bet.id, result |-> bet.result, createdAt |-> now, updatedAt |-> now]

AddBetList(item, bet, now) == LoadBets(item) \o <<Stamped(bet, now)>>

AddBetsList(item, newBets, now) ==
  LoadBets(item) \o [i \in DOMAIN newBets |-> Stamped(newBets[i], now)]

\* existingBets.map(bet => bet.id === betId ? {...bet, ...updates,
\* updatedAt: now} : bet)
UpdateBetList(item, betId, updates, now) ==
  [i \in DOMAIN LoadBets(item) |->
     IF LoadBets(item)[i].id = betId
       THEN [LoadBets(item)[i] EXCEPT !.result = updates.result,
                                      !.updatedAt = now]
       ELSE LoadBets(item)[i]]

\* Stores of up to MaxStored bets, clock readings 1..MaxTime.
MaxStored == 3
MaxTime == 2
Times == 1..MaxTime
BetIds == {"a", "b"}
BetResults == {"pending", "win"}
NewBets == [id : BetIds, result : BetResults]

OldBet(id) == [id |-> id, result |-> "pending", createdAt |-> 1, updatedAt |-> 1]

\* What the store may hold when the program starts.
InitialItems ==
  { Null, CorruptItem,
    [kind |-> "json", version |-> "1.0", timestamp |-> 1, bets |-> <<>>],
    [kind |-> "json", version |-> "1.0", timestamp |-> 1, bets |-> <<OldBet("a")>>],
    [kind |-> "json", version |-> "1.0", timestamp |-> 1,
     bets |-> <<OldBet("b"), OldBet("a")>>],
    [kind |-> "json", version |-> "1.0", timestamp |-> 1],
    [kind |-> "json", version |-> "0.9", timestamp |-> 1, bets |-> <<OldBet("a")>>] }

InitStorage ==
  /\ PipelineInit
  /\ \A p \in Invocations : ~ hasCb[p]
  /\ page = [source |-> "none"]
  /\ reviewed = {}
  /\ bets \in InitialItems
  /\ fn = "none"
  /\ arg = NoValue
  /\ ret = NoValue

\* A call returns `list` after saveBets(list).
Returns(name, args, list, now, setItemOk) ==
  /\ fn' = name
  /\ arg' = args
  /\ ret' = Value(list)
  /\ bets' = SaveBets(bets, list, now, setItemOk)
  /\ UNCHANGED <<page, reviewed, pvars>>

AddBet ==
  \E bet \in NewBets, t1, t2 \in Times, setItemOk \in BOOLEAN :
    /\ t1 <= t2
    /\ Len(LoadBets(bets)) < MaxStored
    /\ Returns("addBet", [bet |-> bet], AddBetList(bets, bet, t1), t2, setItemOk)

AddBets ==
  \E n \in 0..2, t1, t2 \in Times, setItemOk \in BOOLEAN :
    \E newBets \in [1..n -> NewBets] :
      /\ t1 <= t2
      /\ Len(LoadBets(bets)) + n <= MaxStored
      /\ Returns("addBets", [newBets |-> newBets],
                 AddBetsList(bets, newBets, t1), t2, setItemOk)

UpdateBet ==
  \E betId \in BetIds, r \in BetResults, t1, t2 \in Times, setItemOk \in BOOLEAN :
    /\ t1 <= t2
    /\ Returns("updateBet", [betId |-> betId, updates |-> [result |-> r]],
               UpdateBetList(bets, betId, [result |-> r], t1), t2, setItemOk)

LoadBetsCall ==
  /\ fn' = "loadBets"
  /\ arg' = NoValue
  /\ ret' = Value(LoadBets(bets))
  /\ UNCHANGED <<bets, page, reviewed, pvars>>

NextStorage == AddBet \/ AddBets \/ UpdateBet \/ LoadBetsCall

SpecStorage == InitStorage /\ [][NextStorage]_vars

\* The bets an item holds, whatever its version.
StoredBets(item) ==
  IF "bets" \in DOMAIN item THEN item.bets ELSE <<>>

Ids(list) == [i \in DOMAIN list |-> list[i].id]

\* The ids the call recorded in fn and arg adds.
AddedIds ==
  IF fn = "addBet" THEN <<arg.bet.id>>
  ELSE IF fn = "addBets" THEN Ids(arg.newBets)
  ELSE <<>>

(***************************************************************************)
(* C30: whatever the store holds, a call of addBet, addBets or updateBet   *)
(* loses no stored bet: loadBets afterwards returns the bets stored before *)
(* the call, in their order, followed by the added ones, and the list the  *)
(* call returned is what loadBets returns next.                            *)
(***************************************************************************)
C30_NoBetLost ==
  [][ fn' \in {"addBet", "addBets", "updateBet"} =>
        /\ Ids(LoadBets(bets')) = Ids(StoredBets(bets)) \o AddedIds'
        /\ ret'.value = LoadBets(bets') ]_vars

TypeOK ==
  /\ worker \in 0..Cardinality(Invocations)
  /\ pc \in [Invocations -> {"idle", "createWorker", "initParams",
                             "initialized", "preprocess", "setParameters",
                             "recognize", "done"}]
====
